---- MODULE Spec2Model ----
(***************************************************************************)
(* A model of canopy's node tree traversal (node.rs), event outcomes       *)
(* (outcome.rs), global focus state (global.rs) and focus subsystem        *)
(* (focus.rs).                                                             *)
(*                                                                         *)
(* A tree is a function from node ids 1..n to the sequence of the node's   *)
(* children in declared order; node 1 is the root of the whole tree.       *)
(* Closures passed to the traversals (FnMut) are modelled by a closure     *)
(* kind and a closure state s that is threaded through the traversal: s    *)
(* holds the closure's captured variables and the mutable global and       *)
(* per-node focus state the closure can reach.                             *)
(***************************************************************************)
EXTENDS Integers, Sequences, FiniteSets, TLC

VARIABLES
    tree,       \* [1..n -> Seq(1..n)]: children of every node, declared order
    accept,     \* [node -> BOOLEAN]: what the node's accept_focus() returns
    hidden,     \* [node -> BOOLEAN]: NodeState.hidden
    focus_gen,  \* GlobalState.focus_gen
    node_gen,   \* [node -> Nat]: NodeState.focus_gen of every node
    op,         \* the last operation run: [name, root]
    vin,        \* input of the last operation: what each node's visit/handler returns
    visited,    \* nodes on which the last operation called its callback, in call order
    ret,        \* value returned by the last operation
    pre,        \* focus state before the last operation: [focus_gen, node_gen]
    acc,        \* SpecOutcome: the accumulated Outcome
    joined,     \* SpecOutcome: the Outcomes joined so far, in order
    probed,     \* shift_direction: the points its search closure was called on
    vw,         \* SpecView: the View, [outer, view], or NoView before View::new
    last_render_focus_gen,  \* GlobalState.last_render_focus_gen
    inspector_active,       \* Root.inspector_active
    stopped,    \* how the program ended: Running, Failed, Panicked or Exit(code)
    pc,         \* runloop: the call it makes next
    term,       \* the terminal: [raw_mode, alternate_screen, mouse_capture, cursor_hidden]
    guard,      \* runloop: [defer, hook]: is the defer! block armed, is the panic hook set
    ignore_flag, \* runloop: its local `ignore`
    taint,      \* GlobalState.taint
    outcome,    \* runloop: Outcome of the last event handled, "none" before the first
    cycle,      \* runloop: the render steps run since the last event was handled
    events,     \* the channel of the EventSource: events sent and not yet received
    sent,       \* events the emitter thread has sent, in order
    handled,    \* events passed to app.event, in order
    emitter,    \* emitter thread: [pc, evt], evt the event read and not yet sent
    children,   \* Panes.children: the columns of the grid, each the panes of its rows
    fresh,      \* SpecPanes: the nodes made and not yet inserted into the Panes
    active,     \* Tabs.active
    tabs,       \* Tabs.tabs.len()
    script_global, \* the thread-local SCRIPT_GLOBAL: None or Some(ScriptGlobal)
    script      \* SpecScript: the statements the running script has yet to run

\* Option::None and Option::Some(x)
None == [t |-> "None"]
Some(x) == [t |-> "Some", v |-> x]

\* the variables of the run loop and of the Root widget
loopvars == <<pc, term, guard, ignore_flag, taint, outcome, cycle, events, sent, handled, emitter>>
rootvars == <<last_render_focus_gen, inspector_active, stopped>>
widgetvars == <<children, fresh, active, tabs, script_global, script>>

vars == <<tree, accept, hidden, focus_gen, node_gen, op, vin, visited, ret, pre, acc, joined,
          probed, vw, rootvars, loopvars, widgetvars>>

(***************************************************************************)
(* Bounds of the model.                                                    *)
(***************************************************************************)
MaxNodes == 4       \* SpecWalk: trees have 1..MaxNodes nodes
MaxFocusNodes == 3  \* Spec, SpecKey: trees have 1..MaxFocusNodes nodes
MaxGen == 3         \* Spec: focus operations are called while focus_gen < MaxGen
MaxKeyGen == 2      \* SpecKey: set_focus is called while focus_gen < MaxKeyGen
MaxViewX == 1       \* SpecView: x coordinates and widths are 0..MaxViewX
MaxViewY == 2       \* SpecView: y coordinates and heights are 0..MaxViewY
MaxJoins == 4       \* SpecOutcome joins at most MaxJoins outcomes
MaxEvents == 3      \* SpecLoop: events the terminal delivers to the emitter thread
ScreenSize == 3     \* the root's screen rectangle is ScreenSize x ScreenSize
MaxScript == 3      \* SpecScript: a script has at most MaxScript statements
MaxTabs == 7        \* SpecTabs: a Tabs has 1..MaxTabs tabs
UsizeBits == 64     \* width of usize, the type of Tabs.active

(***************************************************************************)
(* Trees.  Every tree shape with n nodes is given by a parent vector p     *)
(* with p[i] < i; the declared child order is ascending id.                *)
(***************************************************************************)
RECURSIVE SortedSeq(_)
SortedSeq(S) ==
    IF S = {} THEN <<>>
    ELSE LET m == CHOOSE x \in S : \A y \in S : x <= y
         IN <<m>> \o SortedSeq(S \ {m})

ParentVecs(n) ==
    {p \in [1..n -> 0..n] : p[1] = 0 /\ \A i \in 2..n : p[i] >= 1 /\ p[i] < i}

KidsOf(n, p) == [e \in 1..n |-> SortedSeq({c \in 1..n : p[c] = e})]

TreesUpTo(m) == UNION {{KidsOf(n, p) : p \in ParentVecs(n)} : n \in 1..m}
Trees == TreesUpTo(MaxNodes)
FocusTrees == TreesUpTo(MaxFocusNodes)

Nodes == DOMAIN tree

Range(s) == {s[i] : i \in 1..Len(s)}

\* the parent of x (no element for the root of the whole tree)
Parents(x) == {q \in Nodes : x \in Range(tree[q])}

\* the root of the whole tree: the node that is nobody's child
Root == CHOOSE x \in Nodes : Parents(x) = {}

RECURSIVE Ancestors(_)
\* proper ancestors of x, nearest first
Ancestors(x) ==
    IF Parents(x) = {} THEN <<>>
    ELSE LET q == CHOOSE q \in Parents(x) : TRUE IN <<q>> \o Ancestors(q)

IsAncestor(a, x) == a \in Range(Ancestors(x))

\* the position of x in the sequence q
IndexIn(q, x) == CHOOSE i \in 1..Len(q) : q[i] = x

\* the nodes of the subtree at r
Sub(r) == {x \in Nodes : x = r \/ IsAncestor(r, x)}

(***************************************************************************)
(* Walker values.  Every walker value is a record [t, skip].               *)
(*   Outcome:    t \in {"Handle", "Ignore"}, skip is the variant's skip    *)
(*   SkipWalker: t = "SkipWalker", skip is has_skip                        *)
(*   Walk<()>:   t = "Walk", skip = TRUE for Walk::Skip                    *)
(***************************************************************************)
Handle(s) == [t |-> "Handle", skip |-> s]
Ignore(s) == [t |-> "Ignore", skip |-> s]
Outcomes == {Handle(TRUE), Handle(FALSE), Ignore(TRUE), Ignore(FALSE)}

\* Outcome::ignore(): an Ignore outcome that doesn't skip
ignore == Ignore(FALSE)
\* Outcome::handle(): Handle::default() has skip: true
handle == Handle(TRUE)
\* a default Outcome that is Outcome::handle()
OutcomeDefault_Handle == handle
\* impl Default for Outcome
OutcomeDefault == ignore

has_skip(o) == o.skip
is_handled(o) == o.t = "Handle"

\* a join in which an Ignore on the left absorbs a Handle on the right
OutcomeJoin_IgnoreWins(a, rhs) ==
    CASE a.t = "Handle" -> Handle(a.skip \/ rhs.skip)
      [] a.t = "Ignore" -> Ignore(a.skip \/ rhs.skip)

\* impl Walker for Outcome: join.  In the (Ignore, Handle) arm the code builds
\* ret with skip: h.skip || ign.skip and then returns Outcome::Handle(h), the
\* right operand unchanged.
OutcomeJoin(a, rhs) ==
    CASE a.t = "Handle" /\ rhs.t = "Handle" -> Handle(a.skip \/ rhs.skip)
      [] a.t = "Handle" /\ rhs.t = "Ignore" -> Handle(a.skip \/ rhs.skip)
      [] a.t = "Ignore" /\ rhs.t = "Handle" -> rhs
      [] a.t = "Ignore" /\ rhs.t = "Ignore" -> Ignore(a.skip \/ rhs.skip)

\* SkipWalker (used by the traversal tests): has_skip, joined by or
SkipWalker(s) == [t |-> "SkipWalker", skip |-> s]
SkipWalkers == {SkipWalker(TRUE), SkipWalker(FALSE)}
SkipWalkerJoin(a, rhs) == SkipWalker(a.skip \/ rhs.skip)

\* Walk<()>: Walk::Skip and Walk::Continue
WalkSkip == [t |-> "Walk", skip |-> TRUE]
WalkContinue == [t |-> "Walk", skip |-> FALSE]
WalkJoin(a, rhs) == IF a.skip \/ rhs.skip THEN WalkSkip ELSE WalkContinue

\* impl Walker for (): join returns (), skip is false
Unit == [t |-> "Unit", skip |-> FALSE]
UnitJoin(a, rhs) == Unit

\* the walker types R of the model and R::default()
WalkerTypes == {"Outcome", "SkipWalker", "Walk", "Unit"}
TypeOf(w) == IF w.t \in {"Handle", "Ignore"} THEN "Outcome" ELSE w.t
WalkerDefault(wt) ==
    CASE wt = "Outcome" -> OutcomeDefault
      [] wt = "SkipWalker" -> SkipWalker(FALSE)
      [] wt = "Walk" -> WalkContinue
      [] wt = "Unit" -> Unit
WalkerValues(wt) ==
    CASE wt = "Outcome" -> Outcomes
      [] wt = "SkipWalker" -> SkipWalkers
      [] wt = "Walk" -> {WalkSkip, WalkContinue}
      [] wt = "Unit" -> {Unit}

\* Walker::join and Walker::skip, dispatched on the implementing type
join(a, rhs) ==
    CASE TypeOf(a) = "Outcome" -> OutcomeJoin(a, rhs)
      [] TypeOf(a) = "SkipWalker" -> SkipWalkerJoin(a, rhs)
      [] TypeOf(a) = "Walk" -> WalkJoin(a, rhs)
      [] TypeOf(a) = "Unit" -> UnitJoin(a, rhs)
skip(w) ==
    CASE TypeOf(w) = "Outcome" -> has_skip(w)
      [] TypeOf(w) = "SkipWalker" -> w.skip
      [] TypeOf(w) = "Walk" -> w = WalkSkip
      [] TypeOf(w) = "Unit" -> FALSE

(***************************************************************************)
(* Screen geometry.  The root's screen rectangle is the whole screen; the  *)
(* children of a node split its rectangle into equal parts, side by side   *)
(* at even depth and stacked at odd depth (the layout of TRoot/TBranch).   *)
(***************************************************************************)
Directions == {"Up", "Down", "Left", "Right"}

Depth(x) == Len(Ancestors(x))

RECURSIVE screen_rect(_)
screen_rect(x) ==
    IF Parents(x) = {}
    THEN [x |-> 0, y |-> 0,
          w |-> ScreenSize, h |-> ScreenSize]
    ELSE LET q == CHOOSE q \in Parents(x) : TRUE
             pr == screen_rect(q)
             k == Len(tree[q])
             i == IndexIn(tree[q], x) - 1
         IN IF Depth(q) % 2 = 0
            THEN [x |-> pr.x + (pr.w * i) \div k, y |-> pr.y,
                  w |-> (pr.w * (i + 1)) \div k - (pr.w * i) \div k, h |-> pr.h]
            ELSE [x |-> pr.x, y |-> pr.y + (pr.h * i) \div k,
                  w |-> pr.w, h |-> (pr.h * (i + 1)) \div k - (pr.h * i) \div k]

\* Rect::contains_point
contains_point(r, p) ==
    /\ p.x >= r.x /\ p.x < r.x + r.w
    /\ p.y >= r.y /\ p.y < r.y + r.h

Up(a, b) == [i \in 1..(b - a + 1) |-> a + i - 1]        \* a, a+1, ..., b
Down(b, a) == [i \in 1..(b - a + 1) |-> b - i + 1]      \* b, b-1, ..., a

\* the points of the lines `outer`, each line running over `inner`; byColumn
\* says whether the lines are columns (outer is x) or rows (outer is y)
Sweep(outer, inner, byColumn) ==
    [k \in 1..(Len(outer) * Len(inner)) |->
        LET o == outer[((k - 1) \div Len(inner)) + 1]
            i == inner[((k - 1) % Len(inner)) + 1]
        IN IF byColumn THEN [x |-> o, y |-> i] ELSE [x |-> i, y |-> o]]

\* Rect::search: the points next to the rectangle in direction dir, nearest
\* line first, out to the first line beyond the screen
SearchPoints(r, dir) ==
    CASE dir = "Right" -> Sweep(Up(r.x + r.w, ScreenSize), Up(r.y, r.y + r.h - 1), TRUE)
      [] dir = "Left" -> Sweep(Down(r.x - 1, 0), Up(r.y, r.y + r.h - 1), TRUE)
      [] dir = "Down" -> Sweep(Up(r.y + r.h, ScreenSize), Up(r.x, r.x + r.w - 1), FALSE)
      [] dir = "Up" -> Sweep(Down(r.y - 1, 0), Up(r.x, r.x + r.w - 1), FALSE)

(***************************************************************************)
(* Closures.  A closure state holds the captured variables of the closure  *)
(* being run (and of the closure it wraps), together with the focus state  *)
(* the closure can change through set_focus.                               *)
(***************************************************************************)
\* g is the focus state the closure starts from: [focus_gen, node_gen, foci],
\* foci being the nodes set_focus was called on so far, in order
ClosureAt(kind, fkind, vis, wt, g) ==
    [kind |-> kind,                 \* which closure the traversal calls
     f |-> fkind,                   \* walk, locate: which closure they were given
     vis |-> vis,                   \* what each node's visit / handler returns
     wt |-> wt,                     \* the walker type R the closure returns
     focus_gen |-> g.focus_gen,     \* GlobalState.focus_gen
     node_gen |-> g.node_gen,       \* NodeState.focus_gen of every node
     current |-> g.focus_gen,       \* focus_gen read before the traversal starts
     foci |-> g.foci,
     v |-> <<>>,                    \* nodes the callback was called on, in order
     focus_set |-> FALSE,
     focus_seen |-> FALSE,
     first |-> TRUE,
     handled |-> FALSE,
     p |-> [x |-> 0, y |-> 0],     \* locate: the point looked for
     probes |-> <<>>,               \* search: the points the closure was called on
     rects |-> <<>>,                \* locate: vp().screen_rect() of every node
     ret |-> WalkerDefault(wt)]

\* the focus state of the model's variables
Now == [focus_gen |-> focus_gen, node_gen |-> node_gen, foci |-> <<>>]

\* the focus state a closure leaves
After(s) == [focus_gen |-> s.focus_gen, node_gen |-> s.node_gen, foci |-> s.foci]

Closure(kind, fkind, vis, wt) == ClosureAt(kind, fkind, vis, wt, Now)

NoVis == [n \in Nodes |-> Unit]

\* StatefulNode::set_focus: bump the global focus_gen, stamp the node with it
set_focus(x, s) ==
    [s EXCEPT !.focus_gen = s.focus_gen + 1,
              !.node_gen = [s.node_gen EXCEPT ![x] = s.focus_gen + 1],
              !.foci = Append(s.foci, x)]

\* StatefulNode::is_focused: the node's stamp equals the global focus_gen
is_focused(x, s) == s.node_gen[x] = s.focus_gen

\* StatefulNode::is_hidden
is_hidden(x) == hidden[x]

\* Node::accept_focus
accept_focus(x) == accept[x]

\* the test closure of node.rs: record the node, return the node's walker value
skipper(x, s) ==
    [s |-> [s EXCEPT !.v = Append(s.v, x)], w |-> s.vis[x]]

\* a shift_first closure that does not look at focus_set
shift_first_f_unguarded(x, s) ==
    IF accept_focus(x)
    THEN [s |-> [set_focus(x, s) EXCEPT !.focus_set = TRUE], w |-> WalkSkip]
    ELSE [s |-> s, w |-> WalkContinue]

\* the closure of shift_first
shift_first_f(x, s) ==
    IF ~s.focus_set /\ accept_focus(x)
    THEN [s |-> [set_focus(x, s) EXCEPT !.focus_set = TRUE], w |-> WalkSkip]
    ELSE [s |-> s, w |-> WalkContinue]

\* a shift_next closure that takes the focused node itself as a candidate
shift_next_f_from_self(x, s) ==
    IF ~s.focus_set
    THEN IF s.focus_seen \/ is_focused(x, s)
         THEN IF accept_focus(x)
              THEN [s |-> [set_focus(x, s) EXCEPT !.focus_set = TRUE, !.focus_seen = TRUE],
                    w |-> WalkContinue]
              ELSE [s |-> [s EXCEPT !.focus_seen = TRUE], w |-> WalkContinue]
         ELSE [s |-> s, w |-> WalkContinue]
    ELSE [s |-> s, w |-> WalkContinue]

\* the closure of shift_next
shift_next_f(x, s) ==
    IF ~s.focus_set
    THEN IF s.focus_seen
         THEN IF accept_focus(x)
              THEN [s |-> [set_focus(x, s) EXCEPT !.focus_set = TRUE], w |-> WalkContinue]
              ELSE [s |-> s, w |-> WalkContinue]
         ELSE IF is_focused(x, s)
              THEN [s |-> [s EXCEPT !.focus_seen = TRUE], w |-> WalkContinue]
              ELSE [s |-> s, w |-> WalkContinue]
    ELSE [s |-> s, w |-> WalkContinue]

\* a shift_prev closure that treats the first node like every other node
shift_prev_f_first_too(x, s) ==
    IF ~s.focus_seen
    THEN IF s.node_gen[x] = s.current
         THEN [s |-> [s EXCEPT !.focus_seen = TRUE], w |-> WalkContinue]
         ELSE IF accept_focus(x)
              THEN [s |-> set_focus(x, s), w |-> WalkContinue]
              ELSE [s |-> s, w |-> WalkContinue]
    ELSE [s |-> s, w |-> WalkContinue]

\* a shift_prev closure that does not stop at the focused node
shift_prev_f_past_focus(x, s) ==
    IF s.first
    THEN [s |-> [s EXCEPT !.first = FALSE], w |-> WalkContinue]
    ELSE IF s.node_gen[x] # s.current /\ accept_focus(x)
         THEN [s |-> set_focus(x, s), w |-> WalkContinue]
         ELSE [s |-> s, w |-> WalkContinue]

\* the closure of shift_prev
shift_prev_f(x, s) ==
    IF s.first
    THEN [s |-> [s EXCEPT !.first = FALSE], w |-> WalkContinue]
    ELSE IF ~s.focus_seen
         THEN IF s.node_gen[x] = s.current
              THEN [s |-> [s EXCEPT !.focus_seen = TRUE], w |-> WalkContinue]
              ELSE IF accept_focus(x)
                   THEN [s |-> set_focus(x, s), w |-> WalkContinue]
                   ELSE [s |-> s, w |-> WalkContinue]
         ELSE [s |-> s, w |-> WalkContinue]

\* the closure Canopy::key gives to walk: try the node's handle_key unless an
\* earlier node on the path returned Handle with skip
key_f(x, s) ==
    IF s.handled
    THEN [s |-> s, w |-> OutcomeDefault]
    ELSE LET o == s.vis[x]
         IN [s |-> [s EXCEPT !.v = Append(s.v, x),
                             !.handled = is_handled(o) /\ has_skip(o)],
             w |-> o]

\* the closures is_on_path, path and focus_depth give to walk: note the node
unit_f(x, s) ==
    [s |-> [s EXCEPT !.v = Append(s.v, x)], w |-> Unit]

\* the closures walk is given
WalkF(x, s) ==
    CASE s.f = "key" -> key_f(x, s)
      [] s.f = "unit" -> unit_f(x, s)

\* a walk closure that does not ask is_hidden
walk_f_sees_hidden(x, s) ==
    IF s.focus_seen
    THEN LET r == WalkF(x, s)
         IN [s |-> [r.s EXCEPT !.ret = join(s.ret, r.w)], w |-> WalkContinue]
    ELSE IF s.node_gen[x] = s.current
         THEN LET r == WalkF(x, s)
              IN [s |-> [r.s EXCEPT !.focus_seen = TRUE, !.ret = join(s.ret, r.w)],
                  w |-> WalkSkip]
         ELSE [s |-> s, w |-> WalkContinue]

\* a walk closure that does not return Walk::Skip at the focused node
walk_f_no_skip(x, s) ==
    IF s.focus_seen
    THEN LET r == WalkF(x, s)
         IN [s |-> [r.s EXCEPT !.ret = join(s.ret, r.w)], w |-> WalkContinue]
    ELSE IF is_hidden(x)
         THEN [s |-> s, w |-> WalkContinue]
         ELSE IF s.node_gen[x] = s.current
              THEN LET r == WalkF(x, s)
                   IN [s |-> [r.s EXCEPT !.focus_seen = TRUE, !.ret = join(s.ret, r.w)],
                       w |-> WalkContinue]
              ELSE [s |-> s, w |-> WalkContinue]

\* the closure walk gives to postorder
walk_f(x, s) ==
    IF s.focus_seen
    THEN LET r == WalkF(x, s)
         IN [s |-> [r.s EXCEPT !.ret = join(s.ret, r.w)], w |-> WalkContinue]
    ELSE IF is_hidden(x)
         THEN [s |-> s, w |-> WalkContinue]
         ELSE IF s.node_gen[x] = s.current
              THEN LET r == WalkF(x, s)
                   IN [s |-> [r.s EXCEPT !.focus_seen = TRUE, !.ret = join(s.ret, r.w)],
                       w |-> WalkSkip]
              ELSE [s |-> s, w |-> WalkContinue]

\* a shift_direction closure that does not ask accept_focus
direction_f_any(x, s) ==
    IF ~s.focus_set
    THEN [s |-> [set_focus(x, s) EXCEPT !.focus_set = TRUE], w |-> WalkContinue]
    ELSE [s |-> s, w |-> WalkContinue]

\* the closure shift_direction gives to locate
direction_f(x, s) ==
    IF ~s.focus_set /\ accept_focus(x)
    THEN [s |-> [set_focus(x, s) EXCEPT !.focus_set = TRUE], w |-> WalkContinue]
    ELSE [s |-> s, w |-> WalkContinue]

\* the closure locate gives to postorder: call f on the first node in
\* postorder whose screen rectangle contains the point, then on its ancestors
locate_f(x, s) ==
    IF s.focus_seen
    THEN LET r == direction_f(x, s)
         IN [s |-> [r.s EXCEPT !.ret = join(s.ret, r.w)], w |-> WalkContinue]
    ELSE IF ~is_hidden(x) /\ contains_point(s.rects[x], s.p)
         THEN LET r == direction_f(x, s)
              IN [s |-> [r.s EXCEPT !.focus_seen = TRUE, !.ret = join(s.ret, r.w)],
                  w |-> WalkSkip]
         ELSE [s |-> s, w |-> WalkContinue]

\* f(x): call the closure of the given kind on node x
Visit(x, s) ==
    CASE s.kind = "skipper" -> skipper(x, s)
      [] s.kind = "shift_first" -> shift_first_f(x, s)
      [] s.kind = "shift_next" -> shift_next_f(x, s)
      [] s.kind = "shift_prev" -> shift_prev_f(x, s)
      [] s.kind = "walk" -> walk_f(x, s)
      [] s.kind = "locate" -> locate_f(x, s)

\* the walker type the traversal's closure returns
VisitType(s) == IF s.kind = "skipper" THEN s.wt ELSE "Walk"

(***************************************************************************)
(* The traversals of node.rs.  Each returns [s, w]: the closure state      *)
(* after the traversal and the walker value returned.                      *)
(***************************************************************************)
RECURSIVE postorder(_, _), PostorderChildren(_, _, _, _)

\* e.children(&mut |x| { if !v.skip() { v = v.join(method(x, f)?); } Ok(()) })
PostorderChildren(kids, i, s, v) ==
    IF i > Len(kids) THEN [s |-> s, w |-> v]
    ELSE IF ~skip(v)
         THEN LET r == postorder(kids[i], s)
              IN PostorderChildren(kids, i + 1, r.s, join(v, r.w))
         ELSE PostorderChildren(kids, i + 1, s, v)

\* a postorder that visits the node before its children
postorder_self_first(e, s) ==
    LET r == Visit(e, s)
        c == PostorderChildren(tree[e], 1, r.s, join(WalkerDefault(VisitType(s)), r.w))
    IN c

\* postorder and postorder_mut (one body, duplicated by the duplicate macro)
postorder(e, s) ==
    LET c == PostorderChildren(tree[e], 1, s, WalkerDefault(VisitType(s)))
        r == Visit(e, c.s)
    IN [s |-> r.s, w |-> join(c.w, r.w)]

RECURSIVE preorder(_, _), PreorderChildren(_, _, _, _)

\* e.children_mut(&mut |x| { v = v.join(preorder(x, f)?); Ok(()) })
PreorderChildren(kids, i, s, v) ==
    IF i > Len(kids) THEN [s |-> s, w |-> v]
    ELSE LET r == preorder(kids[i], s)
         IN PreorderChildren(kids, i + 1, r.s, join(v, r.w))

\* a preorder that descends into the children whatever the visit returned
preorder_ignores_skip(e, s) ==
    LET r == Visit(e, s)
    IN PreorderChildren(tree[e], 1, r.s, r.w)

preorder(e, s) ==
    LET r == Visit(e, s)
    IN IF ~skip(r.w)
       THEN PreorderChildren(tree[e], 1, r.s, r.w)
       ELSE r

(***************************************************************************)
(* The focus operations of focus.rs.  Each takes the root it is called on  *)
(* and the focus state g, and returns the focus state it leaves.           *)
(***************************************************************************)
shift_first(root, g) ==
    After(preorder(root, ClosureAt("shift_first", "none", NoVis, "Walk", g)).s)

\* a shift_next that does not fall back on shift_first
shift_next_no_wrap(root, g) ==
    After(preorder(root, ClosureAt("shift_next", "none", NoVis, "Walk", g)).s)

shift_next(root, g) ==
    LET s == preorder(root, ClosureAt("shift_next", "none", NoVis, "Walk", g)).s
    IN IF ~s.focus_set THEN shift_first(root, After(s)) ELSE After(s)

shift_prev(root, g) ==
    After(preorder(root, ClosureAt("shift_prev", "none", NoVis, "Walk", g)).s)

\* walk: the closure state after the closure fkind was called along the focus
\* path under root; s.v are the nodes called, s.ret is the value returned
walk(root, fkind, vis, wt, g) ==
    postorder(root, ClosureAt("walk", fkind, vis, wt, g)).s

\* locate(root, p, f): s is the state of the closure f
locate(root, p, s) ==
    postorder(root, [s EXCEPT !.kind = "locate", !.focus_seen = FALSE, !.p = p]).s

\* the closure shift_direction gives to search: [s, stop]
search_f(root, p, s0) ==
    LET s == [s0 EXCEPT !.probes = Append(s0.probes, p)]
    IN IF ~contains_point(s.rects[root], p)
       THEN [s |-> s, stop |-> TRUE]
       ELSE LET t == locate(root, p, s) IN [s |-> t, stop |-> t.focus_set]

RECURSIVE search(_, _, _, _)
\* Rect::search: call the closure on the points in turn until it returns true
search(points, i, root, s) ==
    IF i > Len(points) THEN s
    ELSE LET r == search_f(root, points[i], s)
         IN IF r.stop THEN r.s ELSE search(points, i + 1, root, r.s)

\* get_area: the screen rectangle of the first node walk calls (none: <<>>)
get_area(root, g) ==
    LET w == walk(root, "unit", NoVis, "Unit", g)
    IN IF w.v = <<>> THEN <<>> ELSE <<screen_rect(w.v[1])>>

\* Node::name: a node is named by its number, as a string
node_name(x) == ToString(x)

RECURSIVE PathInsert(_, _, _)
\* path's closure run on the nodes v[i..]: path.insert(0, n.name())
PathInsert(v, i, p) ==
    IF i > Len(v) THEN p ELSE PathInsert(v, i + 1, <<node_name(v[i])>> \o p)

RECURSIVE StrJoin(_, _)
\* Vec<String>::join(sep): a string is the sequence of its pieces
StrJoin(p, sep) ==
    IF p = <<>> THEN <<>>
    ELSE IF Len(p) = 1 THEN <<p[1]>>
    ELSE <<p[1], sep>> \o StrJoin(Tail(p), sep)

\* a path that pushes each name at the end of the vector
path_pushes_back(root, g) ==
    LET v == walk(root, "unit", NoVis, "Unit", g).v
    IN <<"/">> \o StrJoin([i \in 1..Len(v) |-> node_name(v[i])], "/")

\* path: "/" + the names of the nodes walk calls, last called first, joined by "/"
path(root, g) ==
    <<"/">> \o StrJoin(PathInsert(walk(root, "unit", NoVis, "Unit", g).v, 1, <<>>), "/")

\* an is_on_path that only asks the node itself
is_on_path_self_only(n, g) == is_focused(n, ClosureAt("none", "none", NoVis, "Unit", g))

\* is_on_path: walk called the closure at least once
is_on_path(n, g) == walk(n, "unit", NoVis, "Unit", g).v # <<>>

\* focus_depth: the number of times walk called the closure
focus_depth(n, g) == Len(walk(n, "unit", NoVis, "Unit", g).v)

\* shift_direction: the focus state it leaves and the points its search tried
shift_direction(root, dir, g) ==
    LET start == get_area(root, g)
    IN IF start = <<>> THEN [g |-> g, probes |-> <<>>]
       ELSE LET c == ClosureAt("locate", "direction", NoVis, "Walk", g)
                s == search(SearchPoints(start[1], dir), 1, root,
                            [c EXCEPT !.rects = [n \in Nodes |-> screen_rect(n)]])
            IN [g |-> After(s), probes |-> s.probes]

(***************************************************************************)
(* Rectangles and View (geom/view.rs).  A Rect is [x, y, w, h], tl being   *)
(* (x, y).  A View is [outer, view].  Each View operation returns          *)
(* [v, ok, panic]: the View it leaves, whether it returned Ok, and whether *)
(* an unwrap in it panicked.                                               *)
(***************************************************************************)
Rect(x, y, w, h) == [x |-> x, y |-> y, w |-> w, h |-> h]

Max(a, b) == IF a >= b THEN a ELSE b
Min(a, b) == IF a <= b THEN a ELSE b

\* Rect::contains_rect: other lies fully inside r
contains_rect(r, other) ==
    /\ other.x >= r.x /\ other.x + other.w <= r.x + r.w
    /\ other.y >= r.y /\ other.y + other.h <= r.y + r.h

\* Rect::clamp: r moved, as little as needed, to lie inside rect; an error when
\* r is wider or taller than rect
clamp(r, rect) ==
    IF r.w > rect.w \/ r.h > rect.h
    THEN [ok |-> FALSE, r |-> r]
    ELSE [ok |-> TRUE,
          r |-> Rect(Max(rect.x, Min(r.x, rect.x + rect.w - r.w)),
                     Max(rect.y, Min(r.y, rect.y + rect.h - r.h)), r.w, r.h)]

\* Rect::shift_within: r moved by (x, y), coordinates saturating at 0, and
\* clamped inside rect; r when it does not fit
shift_within(r, x, y, rect) ==
    LET c == clamp(Rect(Max(0, r.x + x), Max(0, r.y + y), r.w, r.h), rect)
    IN IF c.ok THEN c.r ELSE r

\* `v as i16` of a u16
AsI16(v) == IF v >= 32768 THEN v - 65536 ELSE v

NoView == [outer |-> <<>>, view |-> <<>>]

Done(v) == [v |-> v, ok |-> TRUE, panic |-> FALSE]

\* a View::new that does not check containment
new_unchecked(outer, view) == Done([outer |-> outer, view |-> view])

\* View::new
new(outer, view) ==
    IF ~contains_rect(outer, view)
    THEN [v |-> NoView, ok |-> FALSE, panic |-> FALSE]
    ELSE Done([outer |-> outer, view |-> view])

scroll_to(v, x, y) ==
    LET c == clamp(Rect(x, y, v.view.w, v.view.h), v.outer)
    IN IF c.ok THEN Done([v EXCEPT !.view = c.r])
       ELSE [v |-> v, ok |-> FALSE, panic |-> TRUE]

scroll_by(v, x, y) == Done([v EXCEPT !.view = shift_within(v.view, x, y, v.outer)])

\* a page_up that does not negate the height
page_up_not_negated(v) == scroll_by(v, 0, AsI16(v.view.h))

page_up(v) == scroll_by(v, 0, 0 - AsI16(v.view.h))
page_down(v) == scroll_by(v, 0, AsI16(v.view.h))
up(v) == scroll_by(v, 0, -1)
down(v) == scroll_by(v, 0, 1)
left(v) == scroll_by(v, -1, 0)
right(v) == scroll_by(v, 1, 0)

\* a resize_outer that leaves the view where it is
resize_outer_keeps_view(v, outer) == Done([v EXCEPT !.outer = outer])

\* a resize_outer that always takes the new outer rectangle as the view
resize_outer_resets(v, outer) == Done([outer |-> outer, view |-> outer])

resize_outer(v, outer) ==
    LET view == IF outer.w < v.view.w \/ outer.h < v.view.h THEN outer ELSE v.view
        c == clamp(view, outer)
    IN IF c.ok THEN Done([outer |-> outer, view |-> c.r])
       ELSE [v |-> v, ok |-> FALSE, panic |-> TRUE]

\* a set_inner that takes the rectangle as it is given
set_inner_unclamped(v, inner) ==
    IF clamp(inner, v.outer).ok THEN Done([v EXCEPT !.view = inner])
    ELSE [v |-> v, ok |-> FALSE, panic |-> FALSE]

\* a set_inner that falls back on the outer rectangle, as resize_outer does
set_inner_falls_back(v, inner) ==
    LET c == clamp(inner, v.outer)
    IN IF c.ok THEN Done([v EXCEPT !.view = c.r])
       ELSE [v |-> [v EXCEPT !.view = v.outer], ok |-> FALSE, panic |-> FALSE]

\* View::set_inner: `?` returns the error before the view is assigned
set_inner(v, inner) ==
    LET c == clamp(inner, v.outer)
    IN IF c.ok THEN Done([v EXCEPT !.view = c.r])
       ELSE [v |-> v, ok |-> FALSE, panic |-> FALSE]

(***************************************************************************)
(* State after construction.                                               *)
(***************************************************************************)
\* NodeState::default: focus_gen: 0
InitNodeGen == 0
\* a global counter that starts where the nodes' stamps start
InitFocusGen_AsNodes == InitNodeGen
\* GlobalState::new: focus_gen: 1
InitFocusGen == 1

NoOp == [name |-> "init", root |-> Root]

\* the variables an operation does not use keep these values
IdleFocus ==
    /\ accept = [n \in Nodes |-> FALSE]
    /\ hidden = [n \in Nodes |-> FALSE]
    /\ focus_gen = InitFocusGen
    /\ node_gen = [n \in Nodes |-> InitNodeGen]
    /\ pre = [focus_gen |-> InitFocusGen, node_gen |-> [n \in Nodes |-> InitNodeGen]]
IdleRun ==
    /\ op = NoOp
    /\ vin = NoVis
    /\ visited = <<>>
    /\ ret = Unit
    /\ probed = <<>>
IdleJoin ==
    /\ acc = OutcomeDefault
    /\ joined = <<>>
IdleView == vw = NoView

\* the terminal as the program finds it
TermInit ==
    [raw_mode |-> FALSE, alternate_screen |-> FALSE, mouse_capture |-> FALSE,
     cursor_hidden |-> FALSE]

Running == [how |-> "running"]
Failed == [how |-> "error"]
Panicked == [how |-> "panic"]
Exit(code) == [how |-> "exit", code |-> code]

\* GlobalState::new: last_render_focus_gen: 1; Root::new: inspector_active: false
IdleRoot ==
    /\ last_render_focus_gen = 1
    /\ inspector_active = FALSE
    /\ stopped = Running
\* Panes, Tabs and ScriptHost are not in use
IdleWidgets ==
    /\ children = <<>>
    /\ fresh = {}
    /\ active = 0
    /\ tabs = 0
    /\ script_global = None
    /\ script = <<>>
\* runloop not entered; GlobalState::new: taint: false
IdleLoop ==
    /\ pc = "enable_raw_mode"
    /\ term = TermInit
    /\ guard = [defer |-> FALSE, hook |-> FALSE]
    /\ ignore_flag = FALSE
    /\ taint = FALSE
    /\ outcome = "none"
    /\ cycle = <<>>
    /\ events = <<>>
    /\ sent = <<>>
    /\ handled = <<>>
    /\ emitter = [pc |-> "unspawned", evt |-> 0]

(***************************************************************************)
(* Spec: the focus operations, called in any order on any node of any      *)
(* tree, the nodes' accept_focus() answers being any.                      *)
(***************************************************************************)
Init ==
    /\ tree \in FocusTrees
    /\ accept \in [Nodes -> BOOLEAN]
    /\ hidden = [n \in Nodes |-> FALSE]
    /\ focus_gen = InitFocusGen
    /\ node_gen = [n \in Nodes |-> InitNodeGen]
    /\ pre = [focus_gen |-> InitFocusGen, node_gen |-> [n \in Nodes |-> InitNodeGen]]
    /\ IdleRun /\ IdleJoin /\ IdleView /\ IdleRoot /\ IdleLoop /\ IdleWidgets

\* the nodes that hold focus in focus state g
FocusedIn(g) == {x \in Nodes : g.node_gen[x] = g.focus_gen}

\* operation `name` called on `root` left focus state g and returned r
Apply(name, root, g, called, r) ==
    /\ op' = [name |-> name, root |-> root]
    /\ pre' = [focus_gen |-> focus_gen, node_gen |-> node_gen]
    /\ focus_gen' = g.focus_gen
    /\ node_gen' = g.node_gen
    /\ visited' = called
    /\ ret' = r
    /\ vin' = NoVis
    /\ probed' = <<>>
    /\ UNCHANGED <<tree, accept, hidden, acc, joined, vw, rootvars, loopvars, widgetvars>>

\* n.set_focus()
SetFocusOn(n) ==
    \E g \in {After(set_focus(n, Closure("none", "none", NoVis, "Unit")))} :
        Apply("set_focus", n, g, g.foci, Unit)

SetFocus ==
    /\ focus_gen < MaxGen
    /\ \E n \in Nodes : SetFocusOn(n)

ShiftFirst ==
    /\ focus_gen < MaxGen
    /\ \E r \in Nodes :
          \E g \in {shift_first(r, Now)} : Apply("shift_first", r, g, g.foci, handle)

ShiftNext ==
    /\ focus_gen < MaxGen
    /\ \E r \in Nodes :
          \E g \in {shift_next(r, Now)} : Apply("shift_next", r, g, g.foci, handle)

ShiftPrev ==
    /\ focus_gen < MaxGen
    /\ \E r \in Nodes :
          \E g \in {shift_prev(r, Now)} : Apply("shift_prev", r, g, g.foci, handle)

ShiftDirection ==
    /\ focus_gen < MaxGen
    /\ \E dir \in Directions :
          \E d \in {shift_direction(Root, dir, Now)} :
             /\ op' = [name |-> "shift_direction", root |-> Root, dir |-> dir]
             /\ pre' = [focus_gen |-> focus_gen, node_gen |-> node_gen]
             /\ focus_gen' = d.g.focus_gen
             /\ node_gen' = d.g.node_gen
             /\ visited' = d.g.foci
             /\ ret' = handle
             /\ vin' = NoVis
             /\ probed' = d.probes
             /\ UNCHANGED <<tree, accept, hidden, acc, joined, vw, rootvars, loopvars, widgetvars>>

RECURSIVE Repeat(_, _, _, _)
\* shift_next(root) called k times in a row: the focus state left and the
\* nodes that held focus after each call
Repeat(root, g, k, seen) ==
    IF k = 0 THEN [g |-> g, seen |-> seen]
    ELSE LET h == shift_next(root, g)
         IN Repeat(root, h, k - 1, Append(seen, FocusedIn(h)))

\* the nodes under r whose accept_focus() is true
Focusable(r) == {x \in Sub(r) : accept[x]}

\* shift_next(r) called as many times as there are focusable nodes under r
ShiftNextRound ==
    /\ focus_gen < MaxGen
    /\ \E r \in Nodes :
          /\ Focusable(r) # {}
          /\ \E t \in {Repeat(r, Now, Cardinality(Focusable(r)), <<>>)} :
                Apply("shift_next_round", r, t.g, t.seen, handle)

\* shift_next(r) followed by shift_prev(r): the nodes that held focus after each
ShiftNextPrev ==
    /\ focus_gen < MaxGen
    /\ \E r \in Nodes :
          \E g \in {shift_next(r, Now)} : \E h \in {shift_prev(r, g)} :
              Apply("shift_next_prev", r, h, <<FocusedIn(g), FocusedIn(h)>>, handle)

Next ==
    \/ SetFocus \/ ShiftFirst \/ ShiftNext \/ ShiftPrev \/ ShiftDirection
    \/ ShiftNextRound \/ ShiftNextPrev

Spec == Init /\ [][Next]_vars

(***************************************************************************)
(* SpecGen: the calls that give focus, and the render sweep recording the  *)
(* focus generation it rendered.                                           *)
(***************************************************************************)
\* a focus_changed that compares with the generation the program started with
focus_changed_since_start == focus_gen # InitFocusGen

\* focus_changed(): has the focus changed since the last render sweep?
focus_changed == focus_gen # last_render_focus_gen

\* Canopy::post_render: the sweep records the focus generation it rendered
PostRender ==
    /\ op' = [name |-> "post_render", root |-> Root]
    /\ last_render_focus_gen' = focus_gen
    /\ pre' = [focus_gen |-> focus_gen, node_gen |-> node_gen]
    /\ visited' = <<>>
    /\ ret' = Unit
    /\ UNCHANGED <<tree, accept, hidden, focus_gen, node_gen, vin, acc, joined, probed, vw,
                   inspector_active, stopped, loopvars, widgetvars>>

NextGen == SetFocus \/ ShiftFirst \/ ShiftNext \/ ShiftPrev \/ ShiftDirection \/ PostRender
SpecGen == Init /\ [][NextGen]_vars

(***************************************************************************)
(* SpecRoot: the Root widget, its two children the inspector and the app,  *)
(* and its commands.                                                       *)
(***************************************************************************)
\* Root::children: the inspector first, then the app
Inspector == tree[Root][1]
App == tree[Root][2]

RootTrees == {t \in Trees : Len(t[1]) = 2}

\* the state a command of Root works on
RootNow ==
    [inspector_active |-> inspector_active, hidden |-> hidden, g |-> Now, stopped |-> stopped]

\* StatefulNode::hide and unhide
hide(x, h) == [h EXCEPT ![x] = TRUE]
unhide(x, h) == [h EXCEPT ![x] = FALSE]

\* Context::focus_first(node)
focus_first(x, g) == shift_first(x, g)

hide_inspector(r) ==
    [r EXCEPT !.inspector_active = FALSE,
              !.hidden = hide(Inspector, r.hidden),
              !.g = focus_first(App, r.g)]

activate_inspector(r) ==
    [r EXCEPT !.inspector_active = TRUE,
              !.hidden = unhide(Inspector, r.hidden),
              !.g = focus_first(Inspector, r.g)]

toggle_inspector(r) ==
    IF r.inspector_active THEN hide_inspector(r) ELSE activate_inspector(r)

\* a quit that closes an open inspector and exits as well
quit_exits_too(r) ==
    [(IF r.inspector_active THEN hide_inspector(r) ELSE r) EXCEPT !.stopped = Exit(0)]

quit(r) ==
    IF r.inspector_active THEN hide_inspector(r) ELSE [r EXCEPT !.stopped = Exit(0)]

\* Inspector::new(): the inspector starts hidden, which is why
\* with_inspector(true) has to unhide it
InspectorNew(x) == [n \in Nodes |-> n = x]

\* Root::with_inspector(state)
with_inspector(r, state) ==
    [r EXCEPT !.inspector_active = state,
              !.hidden = IF state THEN unhide(Inspector, r.hidden) ELSE r.hidden]

\* Root::new(app); the nodes of the app are shown
InitRoot ==
    /\ tree \in RootTrees
    /\ accept \in [Nodes -> BOOLEAN]
    /\ inspector_active = FALSE
    /\ hidden = InspectorNew(tree[1][1])
    /\ focus_gen = InitFocusGen
    /\ node_gen = [n \in Nodes |-> InitNodeGen]
    /\ pre = [focus_gen |-> InitFocusGen, node_gen |-> [n \in Nodes |-> InitNodeGen],
              inspector_active |-> inspector_active, hidden |-> hidden]
    /\ last_render_focus_gen = 1
    /\ stopped = Running
    /\ IdleRun /\ IdleJoin /\ IdleView /\ IdleLoop /\ IdleWidgets

\* the command `name` of Root left r
RootCall(name, r) ==
    /\ op' = [name |-> name, root |-> Root]
    /\ pre' = [focus_gen |-> focus_gen, node_gen |-> node_gen,
               inspector_active |-> inspector_active, hidden |-> hidden]
    /\ inspector_active' = r.inspector_active
    /\ hidden' = r.hidden
    /\ focus_gen' = r.g.focus_gen
    /\ node_gen' = r.g.node_gen
    /\ visited' = r.g.foci
    /\ stopped' = r.stopped
    /\ UNCHANGED <<tree, accept, vin, ret, acc, joined, probed, vw, last_render_focus_gen,
                   loopvars, widgetvars>>

\* with_inspector consumes and returns the Root: it is called on the
\* value Root::new returned, before the Root is handed to the run loop
WithInspector ==
    /\ op.name \in {"init", "with_inspector"}
    /\ \E state \in BOOLEAN : \E r \in {with_inspector(RootNow, state)} :
          RootCall("with_inspector", r)

\* a command runs while the program does, exit(code) ends it
Quit ==
    /\ stopped = Running /\ focus_gen < MaxGen
    /\ \E r \in {quit(RootNow)} : RootCall("quit", r)

HideInspector ==
    /\ stopped = Running /\ focus_gen < MaxGen
    /\ \E r \in {hide_inspector(RootNow)} : RootCall("hide_inspector", r)

ActivateInspector ==
    /\ stopped = Running /\ focus_gen < MaxGen
    /\ \E r \in {activate_inspector(RootNow)} : RootCall("activate_inspector", r)

ToggleInspector ==
    /\ stopped = Running /\ focus_gen < MaxGen
    /\ \E r \in {toggle_inspector(RootNow)} : RootCall("toggle_inspector", r)

\* Root::focus_next: c.focus_next(self)
FocusNext ==
    /\ stopped = Running /\ focus_gen < MaxGen
    /\ \E g \in {shift_next(Root, Now)} : RootCall("focus_next", [RootNow EXCEPT !.g = g])

NextRoot == WithInspector \/ Quit \/ HideInspector \/ ActivateInspector \/ ToggleInspector \/ FocusNext
SpecRoot == InitRoot /\ [][NextRoot]_vars

(***************************************************************************)
(* SpecLoop: runloop of the crossterm backend and the emitter thread it    *)
(* spawns. Every call that returns a Result may fail, the calls into the   *)
(* application may panic, and an event handler may call exit.              *)
(***************************************************************************)
\* the variables runloop and the emitter thread leave alone
appvars == <<tree, accept, hidden, focus_gen, node_gen, op, vin, visited, ret, pre, acc, joined,
             probed, vw, last_render_focus_gen, inspector_active, widgetvars>>

\* LeaveAlternateScreen, DisableMouseCapture, Show, disable_raw_mode
restore(t) ==
    [t EXCEPT !.alternate_screen = FALSE, !.mouse_capture = FALSE, !.cursor_hidden = FALSE,
              !.raw_mode = FALSE]

\* execute!(w, EnterAlternateScreen, EnableMouseCapture, Hide): the terminal
\* after the first k commands were written
entered(t, k) ==
    [t EXCEPT !.alternate_screen = (k >= 1) \/ @, !.mouse_capture = (k >= 2) \/ @,
              !.cursor_hidden = (k >= 3) \/ @]

\* the terminal after the panic hook, if set, and then the defer! block, if
\* armed, have run
unwound(t, g, how) ==
    LET hooked == IF how = Panicked /\ g.hook THEN restore(t) ELSE t
    IN IF g.defer THEN restore(hooked) ELSE hooked

\* runloop returns the error, or the panic leaves it
Stop(how) ==
    /\ stopped' = how
    /\ term' = unwound(term, guard, how)
    /\ pc' = "done"

\* a send that puts the event in front of those waiting
send_front(chan, evt) == <<evt>> \o chan

\* evt_tx.send(evt)
send(chan, evt) == Append(chan, evt)

InitLoop ==
    /\ tree = KidsOf(1, [i \in 1..1 |-> 0])
    /\ IdleFocus /\ IdleRun /\ IdleJoin /\ IdleView /\ IdleRoot /\ IdleLoop /\ IdleWidgets

\* translate_result(terminal::enable_raw_mode())?
EnableRawMode ==
    /\ pc = "enable_raw_mode"
    /\ \/ /\ term' = [term EXCEPT !.raw_mode = TRUE]
          /\ pc' = "execute"
          /\ UNCHANGED stopped
       \/ Stop(Failed)
    /\ UNCHANGED <<appvars, guard, ignore_flag, taint, outcome, cycle, events, sent, handled,
                   emitter>>

\* translate_result(crossterm::execute!(...))?, then defer! and panic::set_hook
EnterScreen ==
    /\ pc = "execute"
    /\ \/ /\ term' = entered(term, 3)
          /\ guard' = [defer |-> TRUE, hook |-> TRUE]
          /\ pc' = "event_emitter"
          /\ UNCHANGED stopped
       \/ \E k \in 0..3 :
             /\ stopped' = Failed
             /\ term' = unwound(entered(term, k), guard, Failed)
             /\ pc' = "done"
             /\ UNCHANGED guard
    /\ UNCHANGED <<appvars, ignore_flag, taint, outcome, cycle, events, sent, handled, emitter>>

\* EventSource::default(); event_emitter(&events): the thread is spawned
EventEmitter ==
    /\ pc = "event_emitter"
    /\ emitter' = [pc |-> "read", evt |-> 0]
    /\ pc' = "size"
    /\ UNCHANGED <<appvars, stopped, term, guard, ignore_flag, taint, outcome, cycle, events,
                   sent, handled>>

\* translate_result(terminal::size())?
Size ==
    /\ pc = "size"
    /\ \/ pc' = "set_root_size" /\ UNCHANGED <<stopped, term>>
       \/ Stop(Failed)
    /\ UNCHANGED <<appvars, guard, ignore_flag, taint, outcome, cycle, events, sent, handled,
                   emitter>>

\* app.set_root_size(...)?
SetRootSize ==
    /\ pc = "set_root_size"
    /\ \/ pc' = "pre_render" /\ UNCHANGED <<stopped, term>>
       \/ Stop(Failed)
       \/ Stop(Panicked)
    /\ UNCHANGED <<appvars, guard, ignore_flag, taint, outcome, cycle, events, sent, handled,
                   emitter>>

\* one call of the render cycle: it returns Ok, returns an error or panics
RenderCall(step, then) ==
    /\ \/ /\ cycle' = Append(cycle, step)
          /\ pc' = then
          /\ UNCHANGED <<stopped, term>>
       \/ Stop(Failed) /\ UNCHANGED cycle
       \/ Stop(Panicked) /\ UNCHANGED cycle
    /\ UNCHANGED <<appvars, guard, ignore_flag, taint, outcome, events, sent, handled, emitter>>

\* if !ignore { app.pre_render(..)?; app.render(..)?; app.post_render(..)?; render.flush()? }
LoopPreRender == pc = "pre_render" /\ RenderCall("pre_render", "render")
LoopRender == pc = "render" /\ RenderCall("render", "post_render")
LoopPostRender == pc = "post_render" /\ RenderCall("post_render", "flush")
LoopFlush == pc = "flush" /\ RenderCall("flush", "next")

\* app.event(&mut ctrl, root, s, events.next()?)?: the event at the head of the
\* channel is taken and handled. The handlers return Ignore or Handle and
\* taint nodes or not (the taint flag is reset before the sweep), or the
\* handling fails, panics or calls exit(0)
Event ==
    /\ pc = "next"
    /\ events # <<>>
    /\ events' = Tail(events)
    /\ handled' = Append(handled, Head(events))
    /\ cycle' = <<>>
    /\ \/ \E o \in {"Ignore", "Handle"}, t \in BOOLEAN :
             /\ outcome' = o
             /\ taint' = t
             /\ ignore_flag' = (o = "Ignore")
             /\ pc' = IF o = "Ignore" THEN "next" ELSE "pre_render"
             /\ UNCHANGED <<stopped, term>>
       \/ Stop(Failed) /\ UNCHANGED <<outcome, taint, ignore_flag>>
       \/ Stop(Panicked) /\ UNCHANGED <<outcome, taint, ignore_flag>>
       \/ /\ stopped' = Exit(0)
          /\ term' = restore(term)
          /\ pc' = "done"
          /\ UNCHANGED <<outcome, taint, ignore_flag>>
    /\ UNCHANGED <<appvars, guard, sent, emitter>>

\* events.next()? with the channel closed and empty
EventsClosed ==
    /\ pc = "next"
    /\ events = <<>>
    /\ emitter.pc = "returned"
    /\ Stop(Failed)
    /\ UNCHANGED <<appvars, guard, ignore_flag, taint, outcome, cycle, events, sent, handled,
                   emitter>>

\* emitter thread: cevent::read() returns the terminal's next event, or fails
\* and the thread returns
EmitterRead ==
    /\ emitter.pc = "read"
    /\ stopped.how # "exit"
    /\ \/ /\ Len(sent) < MaxEvents
          /\ emitter' = [pc |-> "send", evt |-> Len(sent) + 1]
       \/ emitter' = [pc |-> "returned", evt |-> 0]
    /\ UNCHANGED <<appvars, stopped, pc, term, guard, ignore_flag, taint, outcome, cycle,
                   events, sent, handled>>

\* emitter thread: evt_tx.send(evt); the thread returns when the receiver is gone
EmitterSend ==
    /\ emitter.pc = "send"
    /\ stopped.how # "exit"
    /\ IF stopped = Running
       THEN /\ events' = send(events, emitter.evt)
            /\ sent' = Append(sent, emitter.evt)
            /\ emitter' = [pc |-> "read", evt |-> 0]
       ELSE /\ emitter' = [pc |-> "returned", evt |-> 0]
            /\ UNCHANGED <<events, sent>>
    /\ UNCHANGED <<appvars, stopped, pc, term, guard, ignore_flag, taint, outcome, cycle,
                   handled>>

NextLoop ==
    \/ EnableRawMode \/ EnterScreen \/ EventEmitter \/ Size \/ SetRootSize
    \/ LoopPreRender \/ LoopRender \/ LoopPostRender \/ LoopFlush
    \/ Event \/ EventsClosed \/ EmitterRead \/ EmitterSend
SpecLoop == InitLoop /\ [][NextLoop]_vars

(***************************************************************************)
(* SpecKey: key events dispatched along the focus path of any tree, any    *)
(* nodes being hidden, the handlers returning any outcomes.                *)
(***************************************************************************)
InitKey ==
    /\ tree \in FocusTrees
    /\ hidden \in [Nodes -> BOOLEAN]
    /\ accept = [n \in Nodes |-> FALSE]
    /\ focus_gen = InitFocusGen
    /\ node_gen = [n \in Nodes |-> InitNodeGen]
    /\ pre = [focus_gen |-> InitFocusGen, node_gen |-> [n \in Nodes |-> InitNodeGen]]
    /\ IdleRun /\ IdleJoin /\ IdleView /\ IdleRoot /\ IdleLoop /\ IdleWidgets

\* a key event ends the run: the handlers are given by the outcomes they
\* return and leave the focus state as it is
KeySetFocus ==
    /\ op.name # "key"
    /\ focus_gen < MaxKeyGen
    /\ \E n \in Nodes : SetFocusOn(n)

\* Canopy::key: walk the focus path from the root of the tree, trying handle_key
Key ==
    /\ op.name # "key"
    /\ \E h \in [Nodes -> Outcomes] :
        \E w \in {walk(Root, "key", h, "Outcome", Now)} :
           /\ op' = [name |-> "key", root |-> Root]
           /\ vin' = h
           /\ visited' = w.v
           /\ ret' = w.ret
           /\ pre' = [focus_gen |-> focus_gen, node_gen |-> node_gen]
           /\ UNCHANGED <<tree, accept, hidden, focus_gen, node_gen, acc, joined, probed, vw, rootvars, loopvars, widgetvars>>

NextKey == KeySetFocus \/ Key

SpecKey == InitKey /\ [][NextKey]_vars

(***************************************************************************)
(* SpecHide: set_focus, shift_first and shift_next called on trees in      *)
(* which any nodes are hidden and any nodes accept focus.                  *)
(***************************************************************************)
InitHide ==
    /\ tree \in FocusTrees
    /\ hidden \in [Nodes -> BOOLEAN]
    /\ accept \in [Nodes -> BOOLEAN]
    /\ focus_gen = InitFocusGen
    /\ node_gen = [n \in Nodes |-> InitNodeGen]
    /\ pre = [focus_gen |-> InitFocusGen, node_gen |-> [n \in Nodes |-> InitNodeGen]]
    /\ IdleRun /\ IdleJoin /\ IdleView /\ IdleRoot /\ IdleLoop /\ IdleWidgets

NextHide == SetFocus \/ ShiftFirst \/ ShiftNext

SpecHide == InitHide /\ [][NextHide]_vars

(***************************************************************************)
(* SpecPath: the focus path queries (walk, path, is_on_path, focus_depth)  *)
(* asked of any node after any set_focus calls, any nodes being hidden.    *)
(***************************************************************************)
InitPath == InitKey

\* the answers of the focus path queries on node r; visited is what walk calls
Query ==
    /\ op.name # "query"
    /\ \E r \in Nodes :
          /\ op' = [name |-> "query", root |-> r]
          /\ visited' = walk(r, "unit", NoVis, "Unit", Now).v
          /\ ret' = [path |-> path(r, Now),
                     is_on_path |-> is_on_path(r, Now),
                     focus_depth |-> focus_depth(r, Now)]
          /\ pre' = [focus_gen |-> focus_gen, node_gen |-> node_gen]
          /\ vin' = NoVis
          /\ UNCHANGED <<tree, accept, hidden, focus_gen, node_gen, acc, joined, probed, vw, rootvars, loopvars, widgetvars>>

NextPath == SetFocus \/ Query

SpecPath == InitPath /\ [][NextPath]_vars

(***************************************************************************)
(* SpecView: a View is created with any two rectangles and then scrolled,  *)
(* resized and given inner rectangles, with any arguments.  A call leaves  *)
(* its name in op, its arguments in vin, [ok, panic] in ret and the View   *)
(* it started from in pre, until the caller takes the result (Return).     *)
(***************************************************************************)
Rects == [x : 0..MaxViewX, y : 0..MaxViewY, w : 0..MaxViewX, h : 0..MaxViewY]

InitView ==
    /\ tree = KidsOf(1, [i \in 1..1 |-> 0])
    /\ IdleFocus /\ IdleRun /\ IdleJoin /\ IdleView /\ IdleRoot /\ IdleLoop /\ IdleWidgets

\* the call `name` with arguments args returned r = [v, ok, panic]
ViewCall(name, args, r) ==
    /\ op' = [name |-> name, root |-> Root]
    /\ vin' = args
    /\ ret' = [ok |-> r.ok, panic |-> r.panic]
    /\ pre' = vw
    /\ vw' = r.v
    /\ UNCHANGED <<tree, accept, hidden, focus_gen, node_gen, visited, acc, joined, probed, rootvars, loopvars, widgetvars>>

New ==
    /\ op = NoOp /\ vw = NoView
    /\ \E outer, view \in Rects : \E r \in {new(outer, view)} :
          ViewCall("new", [outer |-> outer, view |-> view], r)

ScrollTo ==
    /\ op = NoOp /\ vw # NoView
    /\ \E x \in 0..MaxViewX, y \in 0..MaxViewY : \E r \in {scroll_to(vw, x, y)} :
          ViewCall("scroll_to", [x |-> x, y |-> y], r)

ScrollBy ==
    /\ op = NoOp /\ vw # NoView
    /\ \E x \in (0 - MaxViewX)..MaxViewX, y \in (0 - MaxViewY)..MaxViewY :
          \E r \in {scroll_by(vw, x, y)} : ViewCall("scroll_by", [x |-> x, y |-> y], r)

PageUp == op = NoOp /\ vw # NoView /\ \E r \in {page_up(vw)} : ViewCall("page_up", <<>>, r)
PageDown == op = NoOp /\ vw # NoView /\ \E r \in {page_down(vw)} : ViewCall("page_down", <<>>, r)
ScrollUp == op = NoOp /\ vw # NoView /\ \E r \in {up(vw)} : ViewCall("up", <<>>, r)
ScrollDown == op = NoOp /\ vw # NoView /\ \E r \in {down(vw)} : ViewCall("down", <<>>, r)
ScrollLeft == op = NoOp /\ vw # NoView /\ \E r \in {left(vw)} : ViewCall("left", <<>>, r)
ScrollRight == op = NoOp /\ vw # NoView /\ \E r \in {right(vw)} : ViewCall("right", <<>>, r)

ResizeOuter ==
    /\ op = NoOp /\ vw # NoView
    /\ \E outer \in Rects : \E r \in {resize_outer(vw, outer)} :
          ViewCall("resize_outer", [outer |-> outer], r)

SetInner ==
    /\ op = NoOp /\ vw # NoView
    /\ \E inner \in Rects : \E r \in {set_inner(vw, inner)} :
          ViewCall("set_inner", [inner |-> inner], r)

\* scroll_by(0, k) followed by scroll_by(0, -k); vin.mid is the view in between
ScrollDownUp ==
    /\ op = NoOp /\ vw # NoView
    /\ \E k \in 0..MaxViewY :
          \E a \in {scroll_by(vw, 0, k)} : \E b \in {scroll_by(a.v, 0, 0 - k)} :
              ViewCall("scroll_down_up", [k |-> k, mid |-> a.v.view], b)

\* page_down() followed by page_up(); vin.mid is the view in between
PageDownUp ==
    /\ op = NoOp /\ vw # NoView
    /\ \E a \in {page_down(vw)} : \E b \in {page_up(a.v)} :
          ViewCall("page_down_up", [k |-> vw.view.h, mid |-> a.v.view], b)

\* the caller takes the result of the call
Return ==
    /\ op # NoOp
    /\ op' = NoOp
    /\ vin' = NoVis
    /\ ret' = Unit
    /\ pre' = [focus_gen |-> InitFocusGen, node_gen |-> [n \in Nodes |-> InitNodeGen]]
    /\ UNCHANGED <<tree, accept, hidden, focus_gen, node_gen, visited, acc, joined, probed, vw, rootvars, loopvars, widgetvars>>

NextView ==
    \/ New \/ ScrollTo \/ ScrollBy \/ PageUp \/ PageDown
    \/ ScrollUp \/ ScrollDown \/ ScrollLeft \/ ScrollRight
    \/ ResizeOuter \/ SetInner \/ ScrollDownUp \/ PageDownUp \/ Return

SpecView == InitView /\ [][NextView]_vars

(***************************************************************************)
(* SpecWalk: preorder and postorder run on every tree with every visitor   *)
(* that returns SkipWalker or Outcome values.                              *)
(***************************************************************************)
InitWalk ==
    /\ tree \in Trees
    /\ IdleFocus /\ IdleRun /\ IdleJoin /\ IdleView /\ IdleRoot /\ IdleLoop /\ IdleWidgets

Visitors == UNION {[Nodes -> WalkerValues(wt)] : wt \in {"SkipWalker", "Outcome"}}

RunTraversal(name, r, vis) ==
    /\ op' = [name |-> name, root |-> Root]
    /\ vin' = vis
    /\ visited' = r.s.v
    /\ ret' = r.w
    /\ UNCHANGED <<tree, accept, hidden, focus_gen, node_gen, pre, acc, joined, probed, vw, rootvars, loopvars, widgetvars>>

DoPreorder ==
    /\ op = NoOp
    /\ \E vis \in Visitors :
        \E r \in {preorder(Root, Closure("skipper", "none", vis, TypeOf(vis[Root])))} :
            RunTraversal("preorder", r, vis)

DoPostorder ==
    /\ op = NoOp
    /\ \E vis \in Visitors :
        \E r \in {postorder(Root, Closure("skipper", "none", vis, TypeOf(vis[Root])))} :
            RunTraversal("postorder", r, vis)

NextWalk == DoPreorder \/ DoPostorder

SpecWalk == InitWalk /\ [][NextWalk]_vars

(***************************************************************************)
(* SpecOutcome: Outcome values are joined one after the other, starting    *)
(* from Outcome::default(), as a traversal accumulates them.               *)
(***************************************************************************)
InitOutcome ==
    /\ tree = KidsOf(1, [i \in 1..1 |-> 0])
    /\ IdleFocus /\ IdleRun /\ IdleJoin /\ IdleView /\ IdleRoot /\ IdleLoop /\ IdleWidgets

JoinNext ==
    /\ Len(joined) < MaxJoins
    /\ \E b \in Outcomes :
          /\ op' = [name |-> "join", root |-> Root]
          /\ vin' = [lhs |-> acc, rhs |-> b]
          /\ ret' = join(acc, b)
          /\ acc' = ret'
          /\ joined' = Append(joined, b)
    /\ UNCHANGED <<tree, accept, hidden, focus_gen, node_gen, visited, pre, probed, vw, rootvars, loopvars, widgetvars>>

NextOutcome == JoinNext

SpecOutcome == InitOutcome /\ [][NextOutcome]_vars

(***************************************************************************)
(* Tree order, stated without the traversals: the path from the root to a  *)
(* node, and which of two nodes comes first in preorder and in postorder.  *)
(***************************************************************************)
RECURSIVE Reverse(_)
Reverse(q) == IF q = <<>> THEN <<>> ELSE Reverse(Tail(q)) \o <<Head(q)>>

PathTo(x) == Reverse(Ancestors(x)) \o <<x>>

\* a and b lie in different child subtrees of their deepest common ancestor,
\* and a's comes first in the declared child order
LeftOf(a, b) ==
    LET pa == PathTo(a)
        pb == PathTo(b)
    IN \E k \in 2..Len(pa) :
          /\ k <= Len(pb)
          /\ \A i \in 1..(k - 1) : pa[i] = pb[i]
          /\ pa[k] # pb[k]
          /\ IndexIn(tree[pa[k - 1]], pa[k]) < IndexIn(tree[pa[k - 1]], pb[k])

PreBefore(a, b) == IsAncestor(a, b) \/ LeftOf(a, b)
PostBefore(a, b) == IsAncestor(b, a) \/ LeftOf(a, b)

NoDup(q) == \A i, j \in 1..Len(q) : q[i] = q[j] => i = j

Skips(x) == skip(vin[x])

(***************************************************************************)
(* C2: preorder visits the root first, then the child subtrees in declared *)
(* child order; the descendants of a node whose visit returns skip are not *)
(* visited, every other node (later siblings and their subtrees included)  *)
(* is visited exactly once.                                                *)
(***************************************************************************)
C2_PreorderOrder ==
    op.name = "preorder" =>
        /\ visited # <<>> /\ visited[1] = Root
        /\ NoDup(visited)
        /\ Range(visited) = {x \in Nodes : \A a \in Range(Ancestors(x)) : ~Skips(a)}
        /\ \A i, j \in 1..Len(visited) : i < j => PreBefore(visited[i], visited[j])

\* a skipping node with a child, which is not visited, and a later sibling
\* of the skipping node, which is
C2_Witness ==
    /\ op.name = "preorder"
    /\ \E x, y \in Nodes :
          /\ Skips(x) /\ tree[x] # <<>>
          /\ LeftOf(x, y) /\ Parents(x) = Parents(y)
          /\ tree[x][1] \notin Range(visited)
          /\ y \in Range(visited)

(***************************************************************************)
(* C3: when no visit returns skip, postorder visits every node exactly     *)
(* once, every node after all of its descendants, sibling subtrees in      *)
(* declared child order; a tree of one node visits exactly that node.      *)
(***************************************************************************)
C3_PostorderOrder ==
    (op.name = "postorder" /\ \A x \in Nodes : ~Skips(x)) =>
        /\ NoDup(visited)
        /\ Range(visited) = Nodes
        /\ \A i, j \in 1..Len(visited) : i < j => PostBefore(visited[i], visited[j])
        /\ Cardinality(Nodes) = 1 => visited = <<Root>>

\* no skip, on a tree with two sibling subtrees, one of them with a child
C3_Witness ==
    /\ op.name = "postorder"
    /\ \A x \in Nodes : ~Skips(x)
    /\ Len(visited) = MaxNodes
    /\ \E x, y \in Nodes : LeftOf(x, y) /\ tree[x] # <<>>

(***************************************************************************)
(* C4: in postorder, once the visit of a node X has returned skip, the     *)
(* nodes visited afterwards are exactly the ancestors of X, child to       *)
(* parent, up to the root.                                                 *)
(***************************************************************************)
C4_SkipLeavesAncestors ==
    (op.name = "postorder" /\ \E x \in Nodes : Skips(x)) =>
        LET i == CHOOSE i \in 1..Len(visited) :
                    /\ Skips(visited[i])
                    /\ \A j \in 1..(i - 1) : ~Skips(visited[j])
        IN SubSeq(visited, i + 1, Len(visited)) = Ancestors(visited[i])

(***************************************************************************)
(* C5: a.join(b) has skip set if and only if a or b has skip set, in each  *)
(* of the four Handle/Ignore combinations.                                 *)
(***************************************************************************)
C5_JoinSkip ==
    op.name = "join" =>
        (has_skip(ret) <=> (has_skip(vin.lhs) \/ has_skip(vin.rhs)))

(***************************************************************************)
(* C6: a.join(b) is a Handle if and only if a or b is a Handle; it is an   *)
(* Ignore only when both are Ignore.                                       *)
(***************************************************************************)
C6_JoinHandle ==
    op.name = "join" =>
        /\ is_handled(ret) <=> (is_handled(vin.lhs) \/ is_handled(vin.rhs))
        /\ ret.t = "Ignore" <=> (vin.lhs.t = "Ignore" /\ vin.rhs.t = "Ignore")

\* an Ignore joined with a Handle
C6_Witness ==
    /\ op.name = "join"
    /\ vin.lhs.t = "Ignore" /\ vin.rhs.t = "Handle"
    /\ is_handled(ret)

(***************************************************************************)
(* Focus, read off the variables.                                          *)
(***************************************************************************)
Focused == {x \in Nodes : node_gen[x] = focus_gen}
PreFocused == {x \in Nodes : pre.node_gen[x] = pre.focus_gen}

\* the first node of a non-empty set of nodes in preorder
FirstOf(S) == CHOOSE x \in S : \A y \in S \ {x} : PreBefore(x, y)

\* the focusable nodes under r that come after x in preorder
FocusableAfter(r, x) == {y \in Focusable(r) : PreBefore(x, y)}

(***************************************************************************)
(* C1: in every state reached by set_focus, shift_first, shift_next,       *)
(* shift_prev and shift_direction calls, at most one node has its          *)
(* focus_gen equal to the global focus_gen.                                *)
(***************************************************************************)
C1_OneFocus == Cardinality(Focused) <= 1

\* a shift_prev that called set_focus on more than one node
C1_Witness ==
    /\ op.name = "shift_prev"
    /\ Len(visited) >= 2
    /\ Cardinality(Focused) = 1

(***************************************************************************)
(* C8: shift_first(root) calls set_focus once, on the first node in the    *)
(* preorder of root that accepts focus, and stamps no other node; when no  *)
(* node accepts focus the global and every node's focus_gen are unchanged. *)
(***************************************************************************)
C8_ShiftFirst ==
    op.name = "shift_first" =>
        IF Focusable(op.root) = {}
        THEN /\ focus_gen = pre.focus_gen
             /\ node_gen = pre.node_gen
             /\ visited = <<>>
        ELSE LET f == FirstOf(Focusable(op.root))
             IN /\ visited = <<f>>
                /\ Focused = {f}
                /\ \A x \in Nodes \ {f} : node_gen[x] = pre.node_gen[x]

\* two focusable nodes, neither below the other: the first one got focus
C8_Witness ==
    /\ op.name = "shift_first"
    /\ \E x, y \in Focusable(op.root) : LeftOf(x, y) /\ Focused = {x}

(***************************************************************************)
(* C9: with a node X under root focused, shift_next(root) moves focus to   *)
(* the first node after X in the preorder of root that accepts focus; with *)
(* no node under root focused, it focuses the first node in preorder that  *)
(* accepts focus.                                                          *)
(***************************************************************************)
C9_ShiftNext ==
    op.name = "shift_next" =>
        LET under == PreFocused \cap Sub(op.root)
        IN IF under = {}
           THEN Focusable(op.root) # {} => Focused = {FirstOf(Focusable(op.root))}
           ELSE \A X \in under :
                   FocusableAfter(op.root, X) # {}
                       => Focused = {FirstOf(FocusableAfter(op.root, X))}

\* focus moved from X over a node that does not accept focus to the next that does
C9_Witness ==
    /\ op.name = "shift_next"
    /\ \E X \in PreFocused \cap Sub(op.root), z \in Sub(op.root), y \in Focusable(op.root) :
          /\ accept[X] /\ ~accept[z]
          /\ PreBefore(X, z) /\ PreBefore(z, y)
          /\ Focused = {y}

(***************************************************************************)
(* C10: when no node after the focused one accepts focus, shift_next       *)
(* focuses the first focusable node in preorder; with focus on the first   *)
(* of the N focusable nodes, N calls of shift_next focus every focusable   *)
(* node exactly once and end on the first focusable node.                  *)
(***************************************************************************)
C10_Wraparound ==
    /\ op.name = "shift_next" =>
          \A X \in PreFocused \cap Sub(op.root) :
              (FocusableAfter(op.root, X) = {} /\ Focusable(op.root) # {})
                  => Focused = {FirstOf(Focusable(op.root))}
    /\ (op.name = "shift_next_round" /\ PreFocused = {FirstOf(Focusable(op.root))}) =>
          /\ Len(visited) = Cardinality(Focusable(op.root))
          /\ \A x \in Focusable(op.root) :
                Cardinality({i \in 1..Len(visited) : visited[i] = {x}}) = 1
          /\ visited[Len(visited)] = {FirstOf(Focusable(op.root))}
          /\ Focused = {FirstOf(Focusable(op.root))}

\* a round over at least two focusable nodes and one that does not accept focus
C10_Witness ==
    /\ op.name = "shift_next_round"
    /\ PreFocused = {FirstOf(Focusable(op.root))}
    /\ Cardinality(Focusable(op.root)) >= 2
    /\ Focusable(op.root) # Sub(op.root)

(***************************************************************************)
(* C7: a key event is offered to the focused node first and then to each   *)
(* ancestor in order toward the root; no handler is called after one has   *)
(* returned Handle with skip; when every node on the path returns Ignore,  *)
(* every node on the path has been called and the result is Ignore.        *)
(***************************************************************************)
\* the focused node, when it is not hidden, and its ancestors up to the root
FocusPath ==
    IF \E x \in Focused : ~hidden[x]
    THEN LET x == CHOOSE x \in Focused : ~hidden[x] IN <<x>> \o Ancestors(x)
    ELSE <<>>

\* the positions on the focus path whose handler returns Handle with skip
Stops == {i \in 1..Len(FocusPath) : vin[FocusPath[i]] = Handle(TRUE)}

C7_KeyDispatch ==
    op.name = "key" =>
        /\ visited = SubSeq(FocusPath, 1,
                            IF Stops = {} THEN Len(FocusPath)
                            ELSE CHOOSE i \in Stops : \A j \in Stops : i <= j)
        /\ (\A i \in 1..Len(FocusPath) : vin[FocusPath[i]].t = "Ignore")
              => (visited = FocusPath /\ ret.t = "Ignore")

\* a path of three nodes, the middle one returning Handle with skip
C7_Witness ==
    /\ op.name = "key"
    /\ Len(FocusPath) = MaxFocusNodes
    /\ vin[FocusPath[1]] = Ignore(FALSE)
    /\ vin[FocusPath[2]] = Handle(TRUE)
    /\ visited = SubSeq(FocusPath, 1, 2)
    /\ is_handled(ret)

(***************************************************************************)
(* C11: shift_prev is the reverse of shift_next: when shift_next(root)     *)
(* with focus on X moves focus to Y, shift_prev(root) with focus on Y      *)
(* moves focus back to X, also across the wraparound (X and Y being nodes  *)
(* under root that accept focus).                                          *)
(***************************************************************************)
C11_PrevReversesNext ==
    op.name = "shift_next_prev" =>
        \A X \in PreFocused \cap Focusable(op.root) :
            \A Y \in Nodes : visited[1] = {Y} => visited[2] = {X}

(***************************************************************************)
(* C12: shift_first and shift_next never give focus to a node whose hidden *)
(* flag is set, even when its accept_focus() returns true.                 *)
(***************************************************************************)
C12_HiddenNotFocused ==
    op.name \in {"shift_first", "shift_next"} =>
        /\ \A i \in 1..Len(visited) : ~hidden[visited[i]]
        /\ \A x \in Focused \ PreFocused : ~hidden[x]

(***************************************************************************)
(* C13: walk, path, is_on_path and focus_depth never report a node that    *)
(* lies in the subtree of a hidden node as focused or on the focus path.   *)
(***************************************************************************)
\* the nodes in the subtree of a hidden node
UnderHidden == {x \in Nodes : \E h \in Nodes : hidden[h] /\ x \in Sub(h)}

C13_HiddenSubtreeExcluded ==
    op.name = "query" =>
        /\ \A i \in 1..Len(visited) : visited[i] \notin UnderHidden
        /\ \A i \in 1..Len(ret.path) : \A x \in UnderHidden : ret.path[i] # node_name(x)
        /\ op.root \in UnderHidden => (~ret.is_on_path /\ ret.focus_depth = 0)

(***************************************************************************)
(* C14: shift_direction(root, dir) terminates (its search tries finitely   *)
(* many points, none twice, none beyond the first line off the screen),    *)
(* and when no node is focused, or no point outward of the focused node's  *)
(* screen rectangle inside root's lies in a node that accepts focus, the   *)
(* global focus_gen and every node's focus_gen are unchanged.              *)
(***************************************************************************)
\* the points of root's screen rectangle outward of rectangle r in direction dir
Beam(r, dir, root) ==
    {p \in [x : 0..ScreenSize, y : 0..ScreenSize] :
        /\ contains_point(screen_rect(root), p)
        /\ CASE dir = "Right" -> p.x >= r.x + r.w /\ p.y >= r.y /\ p.y < r.y + r.h
             [] dir = "Left" -> p.x < r.x /\ p.y >= r.y /\ p.y < r.y + r.h
             [] dir = "Down" -> p.y >= r.y + r.h /\ p.x >= r.x /\ p.x < r.x + r.w
             [] dir = "Up" -> p.y < r.y /\ p.x >= r.x /\ p.x < r.x + r.w}

\* the search from the focused node meets a node that accepts focus
Meets ==
    \E X \in PreFocused : \E p \in Beam(screen_rect(X), op.dir, op.root) :
        \E x \in Sub(op.root) : accept[x] /\ contains_point(screen_rect(x), p)

C14_DirectionFrame ==
    op.name = "shift_direction" =>
        /\ NoDup(probed)
        /\ \A i \in 1..Len(probed) : probed[i] \in [x : 0..ScreenSize, y : 0..ScreenSize]
        /\ (PreFocused = {} \/ ~Meets) =>
              /\ focus_gen = pre.focus_gen
              /\ node_gen = pre.node_gen
              /\ Focused = PreFocused

\* the search ran from a focused node to the edge of the screen and met nothing
C14_Witness ==
    /\ op.name = "shift_direction"
    /\ PreFocused # {}
    /\ ~Meets
    /\ Len(probed) >= 2
    /\ ~contains_point(screen_rect(op.root), probed[Len(probed)])
    /\ Focused = PreFocused

(***************************************************************************)
(* C15: path(root) is "/" when no node under root holds focus; otherwise   *)
(* it is the names of the nodes from root down to the focused node, in     *)
(* that order, each preceded by "/".  (A hidden node does not hold focus.) *)
(***************************************************************************)
\* the node under r that holds focus, as a set
HoldsFocus(r) == {x \in Focused \cap Sub(r) : ~hidden[x]}

\* the nodes from r down to x, x being in the subtree of r
PathFrom(r, x) ==
    LET q == PathTo(x) IN SubSeq(q, IndexIn(q, r), Len(q))

RECURSIVE Slashed(_)
\* the names of a sequence of nodes, each preceded by "/"
Slashed(q) ==
    IF q = <<>> THEN <<>> ELSE <<"/", node_name(Head(q))>> \o Slashed(Tail(q))

C15_Path ==
    op.name = "query" =>
        IF HoldsFocus(op.root) = {}
        THEN ret.path = <<"/">>
        ELSE \A x \in HoldsFocus(op.root) : ret.path = Slashed(PathFrom(op.root, x))

\* path asked of the root, the focused node three levels deep
C15_Witness ==
    /\ op.name = "query"
    /\ op.root = Root
    /\ \E x \in HoldsFocus(Root) : Len(PathTo(x)) = 3
    /\ Len(ret.path) = 6

(***************************************************************************)
(* C16: is_on_path(n) is true exactly when n is the focused node or an     *)
(* ancestor of it: false for every node when nothing holds focus, false    *)
(* for a node whose subtree does not contain the focused node.             *)
(***************************************************************************)
C16_IsOnPath ==
    op.name = "query" =>
        (ret.is_on_path <=>
            \E x \in Focused : ~hidden[x] /\ (x = op.root \/ IsAncestor(op.root, x)))

\* asked of a proper ancestor of the focused node, another node having held
\* focus before
C16_Witness ==
    /\ op.name = "query"
    /\ ret.is_on_path
    /\ \E x \in Focused : IsAncestor(op.root, x)
    /\ \E y \in Nodes \ Focused : node_gen[y] # InitNodeGen

(***************************************************************************)
(* C17: once View::new has succeeded, after any scroll_to, scroll_by,      *)
(* page_up, page_down, up, down, left, right, resize_outer and set_inner   *)
(* calls (set_inner succeeding or failing) the view rectangle lies fully   *)
(* inside the outer rectangle, and no clamp unwrap has panicked.           *)
(***************************************************************************)
\* rectangle b lies inside rectangle a, edge by edge
Inside(a, b) ==
    /\ a.x <= b.x /\ b.x + b.w <= a.x + a.w
    /\ a.y <= b.y /\ b.y + b.h <= a.y + a.h

C17_ViewInsideOuter ==
    /\ vw # NoView => Inside(vw.outer, vw.view)
    /\ op.name \in {"scroll_to", "resize_outer"} => ~ret.panic

\* resize_outer to a rectangle smaller than the view, elsewhere than the view
C17_Witness ==
    /\ op.name = "resize_outer"
    /\ vin.outer.w < pre.view.w
    /\ ~Inside(vin.outer, pre.view)
    /\ vw.view # pre.view
    /\ Inside(vw.outer, vw.view)

(***************************************************************************)
(* C18: when inner is no wider and no taller than outer, set_inner(inner)  *)
(* succeeds and leaves a view of inner's width and height, inside outer,   *)
(* as near to inner as a rectangle of that size inside outer can be        *)
(* (inner itself when it lies inside outer); outer is unchanged.           *)
(***************************************************************************)
Dist(a, b) == IF a >= b THEN a - b ELSE b - a

\* the rectangles of r's size that lie inside outer
Placements(outer, r) ==
    {c \in [x : 0..(outer.x + outer.w), y : 0..(outer.y + outer.h), w : {r.w}, h : {r.h}] :
        Inside(outer, c)}

C18_SetInnerClamps ==
    (op.name = "set_inner" /\ vin.inner.w <= pre.outer.w /\ vin.inner.h <= pre.outer.h) =>
        /\ ret.ok
        /\ vw.outer = pre.outer
        /\ vw.view \in Placements(pre.outer, vin.inner)
        /\ \A c \in Placements(pre.outer, vin.inner) :
              /\ Dist(vw.view.x, vin.inner.x) <= Dist(c.x, vin.inner.x)
              /\ Dist(vw.view.y, vin.inner.y) <= Dist(c.y, vin.inner.y)
        /\ Inside(pre.outer, vin.inner) => vw.view = vin.inner

\* an inner rectangle beyond outer on both axes was moved back on both
C18_Witness ==
    /\ op.name = "set_inner"
    /\ ret.ok
    /\ vin.inner.w > 0 /\ vin.inner.h > 0
    /\ vw.view.x < vin.inner.x /\ vw.view.y < vin.inner.y
    /\ vw.view.x + vw.view.w = vw.outer.x + vw.outer.w
    /\ vw.view.y + vw.view.h = vw.outer.y + vw.outer.h

(***************************************************************************)
(* C19: when inner is wider or taller than outer, set_inner(inner) returns *)
(* an error and leaves the view and the outer rectangle as they were.      *)
(***************************************************************************)
C19_SetInnerError ==
    (op.name = "set_inner" /\ (vin.inner.w > pre.outer.w \/ vin.inner.h > pre.outer.h)) =>
        /\ ~ret.ok
        /\ vw = pre

\* an inner rectangle that is only too tall, the view not being all of outer
C19_Witness ==
    /\ op.name = "set_inner"
    /\ vin.inner.h > pre.outer.h /\ vin.inner.w <= pre.outer.w
    /\ pre.view # pre.outer
    /\ ~ret.ok
    /\ vw = pre

(***************************************************************************)
(* C20: View::new(outer, view) returns an error and no View when view does *)
(* not lie fully inside outer, and otherwise a View with exactly the given *)
(* outer and view.                                                         *)
(***************************************************************************)
C20_NewChecks ==
    op.name = "new" =>
        IF Inside(vin.outer, vin.view)
        THEN ret.ok /\ vw = [outer |-> vin.outer, view |-> vin.view]
        ELSE ~ret.ok /\ vw = NoView

\* a view small enough for outer but lying partly outside it is refused
C20_Witness ==
    /\ op.name = "new"
    /\ vin.view.w <= vin.outer.w /\ vin.view.h <= vin.outer.h
    /\ vin.view.w > 0 /\ vin.view.h > 0
    /\ ~Inside(vin.outer, vin.view)
    /\ ~ret.ok
    /\ vw = NoView

(***************************************************************************)
(* C21: resize_outer with a rectangle narrower or shorter than the view    *)
(* leaves a view of exactly the new outer's size located at (0, 0), and    *)
(* outer is the new rectangle.                                             *)
(***************************************************************************)
C21_ResizeShrinks ==
    (op.name = "resize_outer" /\ (vin.outer.w < pre.view.w \/ vin.outer.h < pre.view.h)) =>
        /\ vw.outer = vin.outer
        /\ vw.view = Rect(0, 0, vin.outer.w, vin.outer.h)

(***************************************************************************)
(* C22: resize_outer with a rectangle the view's width and height fit in   *)
(* keeps the view's width and height, leaves the view in place when it     *)
(* lies inside the new outer and otherwise moves it as little as puts it   *)
(* inside; called again with the same rectangle it changes nothing.        *)
(***************************************************************************)
C22_ResizeKeepsView ==
    /\ (op.name = "resize_outer" /\ vin.outer.w >= pre.view.w /\ vin.outer.h >= pre.view.h) =>
          /\ vw.outer = vin.outer
          /\ vw.view \in Placements(vin.outer, pre.view)
          /\ \A c \in Placements(vin.outer, pre.view) :
                /\ Dist(vw.view.x, pre.view.x) <= Dist(c.x, pre.view.x)
                /\ Dist(vw.view.y, pre.view.y) <= Dist(c.y, pre.view.y)
          /\ Inside(vin.outer, pre.view) => vw.view = pre.view
    /\ (op.name = "resize_outer" /\ vin.outer = pre.outer) => vw = pre

\* the view fitted the new outer but lay partly outside it, and was moved
C22_Witness ==
    /\ op.name = "resize_outer"
    /\ vin.outer.w >= pre.view.w /\ vin.outer.h >= pre.view.h
    /\ pre.view.w > 0 /\ pre.view.h > 0
    /\ ~Inside(vin.outer, pre.view)
    /\ vw.view # pre.view
    /\ vw.view.w = pre.view.w /\ vw.view.h = pre.view.h

(***************************************************************************)
(* C23: when the view moved down by k still lies inside outer,             *)
(* scroll_by(0, k) followed by scroll_by(0, -k) leaves the view where it   *)
(* was; so does page_down followed by page_up when a page fits below.      *)
(***************************************************************************)
C23_ScrollRoundTrip ==
    (/\ op.name \in {"scroll_down_up", "page_down_up"}
     /\ Inside(pre.outer, [pre.view EXCEPT !.y = pre.view.y + vin.k])) =>
        /\ vin.mid = [pre.view EXCEPT !.y = pre.view.y + vin.k]
        /\ vw = pre

\* a page that fits below the view: down a page and back
C23_Witness ==
    /\ op.name = "page_down_up"
    /\ vin.k > 0
    /\ vin.mid.y = pre.view.y + vin.k
    /\ vw = pre

\* the last node of a non-empty set of nodes in preorder
LastOf(S) == CHOOSE x \in S : \A y \in S \ {x} : PreBefore(y, x)

\* the nodes under r, r excepted, whose accept_focus() is true
FocusableBelow(r) == Focusable(r) \ {r}

GaveFocus ==
    /\ op.name \in {"set_focus", "shift_first", "shift_next", "shift_prev", "shift_direction"}
    /\ visited # <<>>

(***************************************************************************)
(* C27: the global focus_gen starts at 1, never decreases and grows on     *)
(* every call that gives focus to a node; focus_changed() is false after   *)
(* construction and after the render sweep has recorded the generation,    *)
(* becomes true with every call that gives focus, and is left as it is by  *)
(* every other call: it is true exactly when a call gave focus since the   *)
(* generation was last recorded.                                           *)
(***************************************************************************)
C27_FocusGen ==
    /\ focus_gen = 1
    /\ ~focus_changed
    /\ [][/\ focus_gen' >= focus_gen
          /\ GaveFocus' => focus_gen' > focus_gen
          /\ focus_changed' = IF op'.name = "post_render" THEN FALSE
                              ELSE IF GaveFocus' THEN TRUE
                              ELSE focus_changed]_vars

\* a shift_prev that gave focus to two nodes after a sweep had recorded a
\* generation above the initial one
C27_Witness ==
    /\ op.name = "shift_prev"
    /\ Len(visited) >= 2
    /\ last_render_focus_gen > InitFocusGen
    /\ focus_gen = pre.focus_gen + 2
    /\ pre.focus_gen = last_render_focus_gen
    /\ focus_changed

(***************************************************************************)
(* C28: Root::quit exits with code 0 only when the inspector is not        *)
(* active. With the inspector active, quit leaves the program running,     *)
(* inspector_active false, the inspector hidden and focus on the first     *)
(* node of the app that accepts focus, so that the next quit exits.        *)
(***************************************************************************)
C28_Quit ==
    /\ op.name = "quit" =>
          IF pre.inspector_active
          THEN /\ stopped = Running
               /\ ~inspector_active
               /\ hidden[Inspector]
               /\ IF Focusable(App) = {}
                  THEN focus_gen = pre.focus_gen /\ node_gen = pre.node_gen
                  ELSE Focused = {FirstOf(Focusable(App))}
               /\ quit(RootNow).stopped = Exit(0)
          ELSE /\ stopped = Exit(0)
               /\ ~inspector_active
               /\ hidden = pre.hidden
               /\ focus_gen = pre.focus_gen /\ node_gen = pre.node_gen
    /\ stopped # Running => op.name = "quit" /\ ~pre.inspector_active

\* quit with the inspector open and focus inside it: focus went to the app
C28_Witness ==
    /\ op.name = "quit"
    /\ pre.inspector_active
    /\ PreFocused # {} /\ PreFocused \subseteq Sub(Inspector)
    /\ Cardinality(Focusable(App)) >= 1
    /\ Focused = {FirstOf(Focusable(App))}
    /\ stopped = Running

FullCycle == <<"pre_render", "render", "post_render", "flush">>

C25_EventOrder ==
    /\ handled \o events = sent
    /\ NoDup(sent)

\* an event handled, a second waiting in the channel while the core loop
\* renders, and a third read by the emitter thread and not yet sent
C25_Witness ==
    /\ Len(handled) >= 1
    /\ events # <<>>
    /\ pc = "render"
    /\ emitter.pc = "send"
    /\ stopped = Running

(***************************************************************************)
(* C26: when runloop has stopped, by an error, a panic or exit, the        *)
(* terminal is restored: not in the alternate screen, no mouse capture,    *)
(* cursor shown, raw mode off.                                             *)
(***************************************************************************)
C26_TerminalRestored == stopped # Running => term = TermInit

(***************************************************************************)
(* C31: when the node stamped with the current focus generation is hidden, *)
(* walk calls its callback on no node, whatever node it is asked of: path  *)
(* is "/", is_on_path is false and focus_depth is 0.                       *)
(***************************************************************************)
C31_HiddenHoldsNoFocus ==
    (op.name = "query" /\ \E x \in Focused : hidden[x]) =>
        /\ visited = <<>>
        /\ ret.path = <<"/">>
        /\ ~ret.is_on_path
        /\ ret.focus_depth = 0

\* asked of a shown proper ancestor of the hidden node that has the stamp
C31_Witness ==
    /\ op.name = "query"
    /\ ~hidden[op.root]
    /\ \E x \in Focused : hidden[x] /\ IsAncestor(op.root, x)
    /\ ret.path = <<"/">>

(***************************************************************************)
(* SpecScript: ScriptHost::execute and the thread-local SCRIPT_GLOBAL the  *)
(* commands registered with the engine read.  A script is a sequence of    *)
(* statements: a call of a registered command that succeeds, one whose     *)
(* dispatch fails, and one that makes the engine raise a runtime error.    *)
(***************************************************************************)
Statements == {"command", "command_err", "throw"}
Scripts == UNION {[1..n -> Statements] : n \in 0..MaxScript}

\* Result<()>
Ok == [t |-> "Ok"]
Err(e) == [t |-> "Err", e |-> e]

\* ScriptGlobal { core, root, node_id }
ScriptGlobal(node_id) == [core |-> "core", root |-> 1, node_id |-> node_id]

\* a guard whose drop leaves SCRIPT_GLOBAL alone
script_guard_forgets(g) == g
\* impl Drop for ScriptGuard: *g.borrow_mut() = None
ScriptGuardDrop(g) == None

InitScript ==
    /\ tree \in {t \in Trees : Len(t) = 2}
    /\ IdleFocus /\ IdleRun /\ IdleJoin /\ IdleView /\ IdleRoot /\ IdleLoop /\ IdleWidgets

\* execute up to run_ast: sg is built, the guard made, SCRIPT_GLOBAL set
Execute ==
    /\ op.name \in {"init", "execute"}
    /\ \E id \in Nodes, s \in Scripts :
          /\ vin' = [node_id |-> id, script |-> s]
          /\ script' = s
          /\ script_global' = Some(ScriptGlobal(id))
    /\ op' = [name |-> "run_ast", root |-> 1]
    /\ visited' = <<>>
    /\ ret' = Unit
    /\ UNCHANGED <<tree, accept, hidden, focus_gen, node_gen, pre, acc, joined, probed, vw,
                   rootvars, loopvars, children, fresh, active, tabs>>

\* unwinding out of execute drops _g
ScriptPanic ==
    /\ op' = [name |-> "panic", root |-> 1]
    /\ stopped' = Panicked
    /\ script_global' = ScriptGuardDrop(script_global)
    /\ UNCHANGED <<last_render_focus_gen, inspector_active, visited, ret, script>>

\* the engine calls a registered command: the closure set by load takes
\* SCRIPT_GLOBAL, unwraps it and dispatches to v.node_id
RunCommand ==
    /\ op.name = "run_ast" /\ script # <<>> /\ Head(script) = "command"
    /\ IF script_global = None
       THEN ScriptPanic
       ELSE /\ visited' = Append(visited, script_global.v.node_id)
            /\ script' = Tail(script)
            /\ UNCHANGED <<op, ret, script_global, rootvars>>
    /\ UNCHANGED <<tree, accept, hidden, focus_gen, node_gen, vin, pre, acc, joined, probed,
                   vw, loopvars, children, fresh, active, tabs>>

\* commands::dispatch returns an error, which the closure unwraps
RunCommandErr ==
    /\ op.name = "run_ast" /\ script # <<>> /\ Head(script) = "command_err"
    /\ ScriptPanic
    /\ UNCHANGED <<tree, accept, hidden, focus_gen, node_gen, vin, pre, acc, joined, probed,
                   vw, loopvars, children, fresh, active, tabs>>

\* run_ast(..).map_err(Error::Script)?: the early return drops _g
RunThrow ==
    /\ op.name = "run_ast" /\ script # <<>> /\ Head(script) = "throw"
    /\ op' = [name |-> "execute", root |-> 1]
    /\ ret' = Err("Script")
    /\ script_global' = ScriptGuardDrop(script_global)
    /\ UNCHANGED <<tree, accept, hidden, focus_gen, node_gen, vin, visited, pre, acc, joined,
                   probed, vw, rootvars, loopvars, children, fresh, active, tabs, script>>

\* run_ast ran the script to its end: Ok(()), and _g is dropped
RunEnd ==
    /\ op.name = "run_ast" /\ script = <<>>
    /\ op' = [name |-> "execute", root |-> 1]
    /\ ret' = Ok
    /\ script_global' = ScriptGuardDrop(script_global)
    /\ UNCHANGED <<tree, accept, hidden, focus_gen, node_gen, vin, visited, pre, acc, joined,
                   probed, vw, rootvars, loopvars, children, fresh, active, tabs, script>>

NextScript == Execute \/ RunCommand \/ RunCommandErr \/ RunThrow \/ RunEnd
SpecScript == InitScript /\ [][NextScript]_vars

(***************************************************************************)
(* SpecControl: CrosstermControl, the BackendControl of the crossterm      *)
(* backend: enter sets the terminal up, exit restores it.  Each call to    *)
(* the terminal can fail, and `?` then returns with the calls before it    *)
(* done.                                                                   *)
(***************************************************************************)
\* CrosstermControl::enter: the terminal after its first k calls succeeded
control_enter(t, k) ==
    [t EXCEPT !.raw_mode = IF k >= 5 THEN FALSE ELSE (k >= 1) \/ @,
              !.alternate_screen = (k >= 2) \/ @,
              !.mouse_capture = (k >= 3) \/ @,
              !.cursor_hidden = (k >= 4) \/ @]

\* CrosstermControl::exit: the terminal after its first k calls succeeded
control_exit(t, k) ==
    [t EXCEPT !.alternate_screen = (k < 1) /\ @,
              !.mouse_capture = (k < 2) /\ @,
              !.cursor_hidden = (k < 3) /\ @,
              !.raw_mode = (k < 4) /\ @]

\* the program starts with the terminal as it found it
InitControl ==
    /\ tree = KidsOf(1, [i \in 1..1 |-> 0])
    /\ IdleFocus /\ IdleRun /\ IdleJoin /\ IdleView /\ IdleRoot /\ IdleLoop /\ IdleWidgets

\* translate_result of the Result the inherent method returned; op.entered:
\* enter returned Ok and exit has not been called since
ControlCall(name, t, ok) ==
    /\ op' = [name |-> name, root |-> 1,
              entered |-> IF name = "enter" THEN ok ELSE FALSE]
    /\ pre' = [term |-> term]
    /\ term' = t
    /\ ret' = IF ok THEN Ok ELSE Err("Render")
    /\ UNCHANGED <<tree, accept, hidden, focus_gen, node_gen, vin, visited, acc, joined, probed,
                   vw, rootvars, pc, guard, ignore_flag, taint, outcome, cycle, events, sent,
                   handled, emitter, widgetvars>>

\* BackendControl::enter
ControlEnter ==
    /\ stopped = Running
    /\ \E k \in 0..5 : ControlCall("enter", control_enter(term, k), k = 5)

\* BackendControl::exit
ControlExit ==
    /\ stopped = Running
    /\ \E k \in 0..4 : ControlCall("exit", control_exit(term, k), k = 4)

\* RenderBackend::exit(code) of CrosstermRender: the four calls, done[i]
\* telling whether call i succeeded, their results unused, then
\* std::process::exit(code)
RenderExit ==
    /\ stopped = Running
    /\ \E code \in 0..1, done \in [1..4 -> BOOLEAN] :
          /\ op' = [name |-> "render_exit", root |-> 1, entered |-> FALSE]
          /\ pre' = [term |-> term]
          /\ term' = [alternate_screen |-> term.alternate_screen /\ ~done[1],
                      mouse_capture |-> term.mouse_capture /\ ~done[2],
                      cursor_hidden |-> term.cursor_hidden /\ ~done[3],
                      raw_mode |-> term.raw_mode /\ ~done[4]]
          /\ stopped' = Exit(code)
    /\ UNCHANGED <<tree, accept, hidden, focus_gen, node_gen, vin, visited, ret, acc, joined,
                   probed, vw, last_render_focus_gen, inspector_active, pc, guard, ignore_flag,
                   taint, outcome, cycle, events, sent, handled, emitter, widgetvars>>

NextControl == ControlEnter \/ ControlExit \/ RenderExit
SpecControl == InitControl /\ [][NextControl]_vars

(***************************************************************************)
(* SpecPanes: the Panes widget, a grid of panes kept as a vector of        *)
(* columns, each the vector of its rows.  Node 1 is the Panes; the nodes   *)
(* made for it are the other children of node 1 in a tree of Trees, each   *)
(* with its subtree.  tree[1] is Node::children of the Panes: the grid     *)
(* column by column.  Coordinates count from 0 as in the code.             *)
(***************************************************************************)
\* Vec::insert(i, e) and Vec::remove(i)
InsertAt(v, i, e) == SubSeq(v, 1, i) \o <<e>> \o SubSeq(v, i + 1, Len(v))
RemoveAt(v, i) == SubSeq(v, 1, i) \o SubSeq(v, i + 2, Len(v))

RECURSIVE Flatten(_)
\* Node::children of Panes: every column in turn, every row of it in turn
Flatten(ch) == IF ch = <<>> THEN <<>> ELSE Head(ch) \o Flatten(Tail(ch))

\* Panes::shape
shape(ch) == [x \in 1..Len(ch) |-> Len(ch[x])]

\* Panes::focus_coords: the first pane, column by column, on the focus path
focus_coords(ch, g) ==
    LET hits == {c \in (0..MaxNodes) \X (0..MaxNodes) :
                    /\ c[1] < Len(ch) /\ c[2] < Len(ch[c[1] + 1])
                    /\ is_on_path(ch[c[1] + 1][c[2] + 1], g)}
    IN IF hits = {} THEN None
       ELSE Some(CHOOSE c \in hits : \A d \in hits :
                    c[1] < d[1] \/ (c[1] = d[1] /\ c[2] <= d[2]))

\* the state a method of Panes works on
PanesNow == [children |-> children, g |-> Now]

\* a delete_focus that leaves an emptied column in the grid
delete_focus_keeps_column(r) ==
    LET coords == focus_coords(r.children, r.g)
    IN IF coords = None THEN r
       ELSE LET x == coords.v[1]
                y == coords.v[2]
            IN [children |-> [r.children EXCEPT ![x + 1] = RemoveAt(@, y)],
                g |-> shift_next(1, r.g)]

\* Panes::delete_focus
delete_focus(r) ==
    LET coords == focus_coords(r.children, r.g)
    IN IF coords = None THEN r
       ELSE LET x == coords.v[1]
                y == coords.v[2]
                g == shift_next(1, r.g)
                removed == [r.children EXCEPT ![x + 1] = RemoveAt(@, y)]
            IN [children |-> IF removed[x + 1] = <<>> THEN RemoveAt(removed, x) ELSE removed,
                g |-> g]

\* Panes::insert_row
insert_row(r, n) ==
    LET coords == focus_coords(r.children, r.g)
    IN IF coords # None
       THEN [r EXCEPT !.children[coords.v[1] + 1] = InsertAt(@, coords.v[2], n)]
       ELSE [r EXCEPT !.children = Append(@, <<n>>)]

\* Panes::insert_col
insert_col(r, n) ==
    LET coords == focus_coords(r.children, r.g)
        g == shift_next(n, r.g)
    IN IF coords # None
       THEN [children |-> InsertAt(r.children, coords.v[1] + 1, <<n>>), g |-> g]
       ELSE [children |-> Append(r.children, <<n>>), g |-> g]

\* Panes::new(n) on the first of the nodes made; no node has the focus
InitPanes ==
    /\ \E t \in Trees :
          /\ Len(t[1]) >= 1
          /\ tree = [t EXCEPT ![1] = <<t[1][1]>>]
          /\ children = <<<<t[1][1]>>>>
          /\ fresh = Range(t[1]) \ {t[1][1]}
    /\ accept \in {a \in [Nodes -> BOOLEAN] : ~a[1]}
    /\ hidden = [n \in Nodes |-> FALSE]
    /\ focus_gen = InitFocusGen
    /\ node_gen = [n \in Nodes |-> InitNodeGen]
    /\ pre = [focus_gen |-> InitFocusGen, node_gen |-> [n \in Nodes |-> InitNodeGen],
              children |-> <<>>, coords |-> None]
    /\ IdleRun /\ IdleJoin /\ IdleView /\ IdleRoot /\ IdleLoop
    /\ active = 0 /\ tabs = 0 /\ script_global = None /\ script = <<>>

\* the method `name` of Panes, given the node n, left r
PanesCall(name, n, r) ==
    /\ op' = [name |-> name, root |-> 1]
    /\ vin' = [n |-> n]
    /\ pre' = [focus_gen |-> focus_gen, node_gen |-> node_gen, children |-> children,
               coords |-> focus_coords(children, Now)]
    /\ children' = r.children
    /\ tree' = [tree EXCEPT ![1] = Flatten(r.children)]
    /\ focus_gen' = r.g.focus_gen
    /\ node_gen' = r.g.node_gen
    /\ visited' = r.g.foci
    /\ UNCHANGED <<accept, hidden, ret, acc, joined, probed, vw, rootvars, loopvars, active,
                   tabs, script_global, script>>

\* a node in the Panes takes the focus
PanesSetFocus ==
    /\ focus_gen < MaxGen
    /\ \E n \in Sub(1) \ {1} :
          \E g \in {After(set_focus(n, Closure("none", "none", NoVis, "Unit")))} :
              /\ PanesCall("set_focus", n, [children |-> children, g |-> g])
              /\ UNCHANGED fresh

InsertCol ==
    /\ focus_gen < MaxGen
    /\ \E n \in fresh : \E r \in {insert_col(PanesNow, n)} :
          /\ PanesCall("insert_col", n, r)
          /\ fresh' = fresh \ {n}

InsertRow ==
    /\ \E n \in fresh : \E r \in {insert_row(PanesNow, n)} :
          /\ PanesCall("insert_row", n, r)
          /\ fresh' = fresh \ {n}

DeleteFocus ==
    /\ focus_gen < MaxGen
    /\ \E r \in {delete_focus(PanesNow)} :
          /\ PanesCall("delete_focus", 0, r)
          /\ UNCHANGED fresh

NextPanes == PanesSetFocus \/ InsertCol \/ InsertRow \/ DeleteFocus
SpecPanes == InitPanes /\ [][NextPanes]_vars

(***************************************************************************)
(* SpecTabs: the Tabs widget, a list of tabs and the index of the active   *)
(* one.                                                                    *)
(***************************************************************************)
\* 2^k % n, computed without leaving the range of n
RECURSIVE Pow2Mod(_, _)
Pow2Mod(k, n) == IF k = 0 THEN 1 % n ELSE (2 * Pow2Mod(k - 1, n)) % n

\* a.wrapping_sub(1) % n for a usize a: 0 wraps to usize::MAX = 2^UsizeBits - 1
wrapping_sub_1_mod(a, n) ==
    IF a >= 1 THEN (a - 1) % n ELSE (Pow2Mod(UsizeBits, n) + n - 1) % n

\* Tabs::next and Tabs::prev: the new value of active
tabs_next(a, n) == (a + 1) % n
tabs_prev(a, n) == wrapping_sub_1_mod(a, n)

\* Tabs::new(tabs) with a non-empty list of tabs
InitTabs ==
    /\ tree = KidsOf(1, [i \in 1..1 |-> 0])
    /\ accept = [n \in Nodes |-> FALSE]
    /\ hidden = [n \in Nodes |-> FALSE]
    /\ focus_gen = InitFocusGen
    /\ node_gen = [n \in Nodes |-> InitNodeGen]
    /\ IdleRun /\ IdleJoin /\ IdleView /\ IdleRoot /\ IdleLoop
    /\ children = <<>> /\ fresh = {} /\ script_global = None /\ script = <<>>
    /\ tabs \in 1..MaxTabs
    /\ active = 0
    /\ pre = [active |-> 0, last |-> "init", before |-> 0]

\* pre keeps active before this call, the call before it and active before that
TabsCall(name, a) ==
    /\ op' = [name |-> name, root |-> 1]
    /\ pre' = [active |-> active, last |-> op.name, before |-> pre.active]
    /\ active' = a
    /\ UNCHANGED <<tree, accept, hidden, focus_gen, node_gen, vin, visited, ret, acc, joined,
                   probed, vw, rootvars, loopvars, children, fresh, tabs, script_global,
                   script>>

TabsNext ==
    /\ tabs >= 1
    /\ TabsCall("next", tabs_next(active, tabs))

TabsPrev ==
    /\ tabs >= 1
    /\ TabsCall("prev", tabs_prev(active, tabs))

NextTabs == TabsNext \/ TabsPrev
SpecTabs == InitTabs /\ [][NextTabs]_vars

(***************************************************************************)
(* C35: skip is sticky in the accumulated Outcome: once an Outcome with    *)
(* skip set has been joined in, the accumulated value has skip set after   *)
(* every later join, whatever Outcomes follow.                             *)
(***************************************************************************)
C35_SkipSticky ==
    (\E i \in 1..Len(joined) : has_skip(joined[i])) => has_skip(acc)

(***************************************************************************)
(* C36: Outcome::default() is Ignore without skip and a two-sided identity *)
(* of join: joined with an Outcome x on either side it gives x.            *)
(***************************************************************************)
C36_DefaultIdentity ==
    /\ OutcomeDefault = Ignore(FALSE)
    /\ op.name = "join" =>
          /\ vin.lhs = OutcomeDefault => ret = vin.rhs
          /\ vin.rhs = OutcomeDefault => ret = vin.lhs
          /\ join(OutcomeDefault, acc) = acc
          /\ join(acc, OutcomeDefault) = acc

\* the default joined on the right of an accumulated Handle without skip,
\* itself the result of joining that Handle on the right of the default
C36_Witness ==
    /\ op.name = "join"
    /\ Len(joined) = 2
    /\ joined[1] = Handle(FALSE) /\ joined[2] = OutcomeDefault
    /\ vin.lhs = Handle(FALSE)
    /\ ret = Handle(FALSE)

(***************************************************************************)
(* C40: in every state of Root that with_inspector, activate_inspector,    *)
(* hide_inspector, toggle_inspector and quit reach, inspector_active is    *)
(* true exactly when the inspector node is not hidden.                     *)
(***************************************************************************)
C40_ActiveIffShown ==
    inspector_active <=> ~hidden[Inspector]

(***************************************************************************)
(* C39: for a Tabs with n >= 1 tabs, active stays below n, next followed   *)
(* by prev and prev followed by next leave active as it was, and prev from *)
(* active = 0 selects the last tab, n - 1.                                 *)
(***************************************************************************)
C39_TabsWrap ==
    /\ active \in 0..(tabs - 1)
    /\ (op.name = "prev" /\ pre.last = "next") => active = pre.before
    /\ (op.name = "next" /\ pre.last = "prev") => active = pre.before
    /\ (op.name = "prev" /\ pre.active = 0) => active = tabs - 1

(***************************************************************************)
(* C34: SCRIPT_GLOBAL is Some, holding the core, the root and the node id  *)
(* of the call, exactly while ScriptHost::execute runs the script; before  *)
(* a call and after it returned Ok or a Script error, or unwound, it is    *)
(* None.                                                                   *)
(***************************************************************************)
C34_ScriptGlobalScoped ==
    /\ op.name = "run_ast" => script_global = Some(ScriptGlobal(vin.node_id))
    /\ op.name # "run_ast" => script_global = None
    /\ op.name = "execute" => ret \in {Ok, Err("Script")}
    /\ \A i \in 1..Len(visited) : visited[i] = vin.node_id

\* execute returned a Script error after the script had dispatched a command
\* to the second node
C34_Witness ==
    /\ op.name = "execute"
    /\ ret = Err("Script")
    /\ visited = <<2>>
    /\ script_global = None

(***************************************************************************)
(* C33: from a successful return of CrosstermControl::enter until exit is  *)
(* called, the terminal is in raw mode, on the alternate screen, with      *)
(* mouse capture enabled and the cursor hidden.                            *)
(***************************************************************************)
C33_EnterSetsUp ==
    (op.name = "enter" /\ op.entered) =>
        /\ term.raw_mode
        /\ term.alternate_screen
        /\ term.mouse_capture
        /\ term.cursor_hidden

(***************************************************************************)
(* C38: after any sequence of insert_col, insert_row and delete_focus no   *)
(* column of the grid is empty: shape() holds no 0.  The grid itself may   *)
(* be empty.                                                               *)
(***************************************************************************)
C38_NoEmptyColumn ==
    /\ \A x \in 1..Len(children) : shape(children)[x] >= 1
    /\ tree[1] = Flatten(children)

\* delete_focus removed the only pane of a column and left another column
C38_Witness ==
    /\ op.name = "delete_focus"
    /\ pre.coords # None
    /\ Len(pre.children[pre.coords.v[1] + 1]) = 1
    /\ Len(children) = Len(pre.children) - 1
    /\ children # <<>>

(***************************************************************************)
(* C32: insert_row with the pane at (x, y) on the focus path puts the new  *)
(* node in column x directly beneath it: the focused pane keeps row y, the *)
(* new node takes row y + 1, the other columns are as they were.  With no  *)
(* pane on the focus path a new column holding only the new node is        *)
(* appended.                                                               *)
(***************************************************************************)
C32_InsertRowBeneath ==
    op.name = "insert_row" =>
        IF pre.coords # None
        THEN LET x == pre.coords.v[1]
                 y == pre.coords.v[2]
             IN children =
                  [pre.children EXCEPT ![x + 1] = InsertAt(@, y + 1, vin.n)]
        ELSE children = Append(pre.children, <<vin.n>>)

(***************************************************************************)
(* C37: after delete_focus removed the pane on the focus path, no node of  *)
(* the removed pane holds the focus, and if a node accepting focus is left *)
(* in the Panes the focused node is a node of the tree.                    *)
(***************************************************************************)
C37_FocusLeavesRemoved ==
    (op.name = "delete_focus" /\ pre.coords # None) =>
        LET removed == pre.children[pre.coords.v[1] + 1][pre.coords.v[2] + 1]
        IN Focusable(1) # {} =>
              /\ Focused \cap Sub(removed) = {}
              /\ Focused # {} /\ Focused \subseteq Sub(1)

====
